---- MODULE Spec2Model ----
(***************************************************************************)
(* Model of the felpower dashboard: the departure poller of js/monitor.js  *)
(* (fetch -> merge -> flatten -> sort -> truncate -> render, with          *)
(* overlapping cycles) and the metering relay inc/smartmeter-proxy.php.    *)
(*                                                                         *)
(* JSON values are modelled structurally.  An optional member is a         *)
(* sequence of length 0 (absent / falsy) or 1 (present).                   *)
(***************************************************************************)
EXTENDS Integers, Sequences, FiniteSets, TLC

VARIABLES
    initialised,     \* TRUE once the init() of both modules of monitor.js has run
    currentRBLs,     \* per module: its `currentRBLs` list
    customDisplay,   \* style.display of the #custom-rbl input
    refreshTimer,    \* per module: TRUE once setInterval(loadDepartures) is armed
    polls,           \* departure cycles in flight, in start order
    started,         \* number of departure cycles started so far
    tbody,           \* #departures-body
    errorContainer,  \* #error-container
    trafficContainer,\* #traffic-info-container
    lastUpdate,      \* #last-update: empty, or the text with the time of day
    lastDone,        \* history: the cycle whose completion callback ran last
    renderIn,        \* pure-function harness: the validResults handed to the renderer
    renderOut,       \* pure-function harness: what displayDepartures produced
    session,         \* relay: the PHP session of the client
    cookieFile,      \* relay: TRUE when the temp cookie file of the session exists
    request,         \* relay: the request handled last
    upstream,        \* relay: the upstream call made for it (empty: none)
    response,        \* relay: the response sent for it
    lastAuth,        \* relay history: the login or logout request handled last
    viaProxy,        \* position of the client's fetchSmartMeterViaProxy chain
    location,        \* window.location: protocol and hostname of the page
    localStorage,    \* the item 'smartmeter_config' (empty: none)
    form,            \* config form: #meter-username, #meter-password, #meter-id
    modalActive,     \* #config-modal has class 'active'
    smartmeter,      \* #smartmeter-value and #smartmeter-period
    meterFetches,    \* relay requests of the metering widget in flight
    demoTimers,      \* pending setTimeout callbacks of the demo sample
    hintTimers,      \* pending setTimeout callbacks of the credentials hint
    meterPolls,      \* number of metering polls started so far
    lastEvent,       \* history: the handler, timer or callback of the metering widget that ran last
    feedTimers,      \* setInterval timers armed for weather and metering
    weatherFetches,  \* number of weather fetches in flight
    weatherPolls,    \* number of weather polls started so far
    weather,         \* #weather-temp, #weather-icon, #weather-desc
    weatherDone      \* history: what the weather fetch that settled last came to

pollVars == <<initialised, currentRBLs, customDisplay, refreshTimer, polls, started, tbody,
              errorContainer, trafficContainer, lastUpdate, lastDone>>
renderVars == <<renderIn, renderOut>>
relayVars == <<session, cookieFile, request, upstream, response, lastAuth, viaProxy>>
meterVars == <<location, localStorage, form, modalActive, smartmeter, meterFetches,
               demoTimers, hintTimers, meterPolls, lastEvent>>
weatherVars == <<weatherFetches, weatherPolls, weather, weatherDone>>
widgetVars == <<meterVars, weatherVars, feedTimers>>
vars == <<pollVars, renderVars, relayVars, widgetVars>>

----------------------------------------------------------------------------
(* Bounds of the model *)

\* departure cycles started in one run of the page
MaxCycles == 4
\* largest countdown (minutes) the modelled feed reports
MaxCountdown == 2
\* longest departure list of one line
MaxDeps == 5
\* metering polls, and weather polls, started in a behaviour
MaxWidgetPolls == 3

(* Program constants *)

\* CONFIG.MAX_DEPARTURES
MAX_DEPARTURES == 8

----------------------------------------------------------------------------
(* Optional JSON members *)

Absent == <<>>
Some(x) == <<x>>
Has(o) == Len(o) > 0
Get(o) == o[1]

Min(a, b) == IF a <= b THEN a ELSE b

RECURSIVE Concat(_)
\* the concatenation of a sequence of sequences
Concat(ss) == IF ss = <<>> THEN <<>> ELSE Head(ss) \o Concat(Tail(ss))

\* all sequences over S of length at most n
SeqsUpTo(S, n) == UNION {[1..k -> S] : k \in 0..n}

----------------------------------------------------------------------------
(* The transit feed: JSON bodies {data: {monitors: [...], trafficInfos: [...]}} *)

\* the JSON value null
JsonNull == [isNull |-> TRUE, data |-> Absent]
\* an object without a data member
NoData == [isNull |-> FALSE, data |-> Absent]
\* an object with a data member; mons and infos are optional lists
Body(mons, infos) ==
    [isNull |-> FALSE, data |-> Some([monitors |-> mons, trafficInfos |-> infos])]

Monitor(lines) == [lines |-> lines]
\* a departure with departureTime.countdown = c
Departure(c) == [departureTime |-> Some([countdown |-> c])]
\* a departure object without a departureTime member
BareDeparture == [departureTime |-> Absent]
Line(name, type, deps) ==
    [name |-> name, towards |-> "Zentrum", type |-> type, barrierFree |-> Some(TRUE),
     departures |-> deps]
\* line.departures = {departure: [...]}
Departures(ds) == Some([departure |-> Some(ds)])
Notice(title) == [title |-> Some(title), description |-> Some("Umleitung")]

\* a line name that tells the stop, the monitor and the line it came from
LineName(rbl, m, l) == rbl \o "/" \o ToString(m) \o "/" \o ToString(l)

Countdowns == 0..MaxCountdown

IsSorted(s) == \A i \in 1..(Len(s) - 1) : s[i] <= s[i + 1]

\* countdown lists of one line: every list of up to two departures, and the
\* chronological (non-decreasing) lists of up to MaxDeps departures
CountdownLists ==
    SeqsUpTo(Countdowns, 2)
        \cup {s \in SeqsUpTo(Countdowns, MaxDeps) : IsSorted(s)}

\* countdown lists of at most one departure
ShortLists == SeqsUpTo(Countdowns, 1)

DepartureList(cs) == [i \in 1..Len(cs) |-> Departure(cs[i])]

\* the feed-shaped bodies stop rbl can answer with in the render harness
RenderBodies(rbl) ==
    {NoData, Body(Absent, Some(<<>>)), Body(Some(<<>>), Some(<<>>)),
     Body(Some(<<Monitor(Absent)>>), Some(<<>>)),
     Body(Some(<<Monitor(Some(<<>>))>>), Some(<<>>)),
     Body(Some(<<Monitor(Some(<<Line(LineName(rbl, 1, 1), Absent, Absent)>>))>>),
          Some(<<>>))}
    \cup {Body(Some(<<Monitor(Some(<<Line(LineName(rbl, 1, 1), Some("ptTram"),
                                           Departures(DepartureList(cs)))>>))>>),
               Some(<<>>)) : cs \in CountdownLists}
    \cup {Body(Some(<<Monitor(Some(<<Line(LineName(rbl, 1, 1), Some("ptMetro"),
                                           Departures(DepartureList(c1))),
                                      Line(LineName(rbl, 1, 2), Absent,
                                           Departures(DepartureList(c2)))>>))>>),
               Some(<<>>)) : c1 \in ShortLists, c2 \in ShortLists}
    \cup {Body(Some(<<Monitor(Some(<<Line(LineName(rbl, 1, 1), Some("ptTram"),
                                           Departures(DepartureList(c1)))>>)),
                      Monitor(Some(<<Line(LineName(rbl, 2, 1), Some("ptBusCity"),
                                           Departures(DepartureList(c2)))>>))>>),
               Some(<<>>)) : c1 \in ShortLists, c2 \in ShortLists}

----------------------------------------------------------------------------
(* mergeAPIResponses, displayDepartures, createDepartureRow, displayTrafficInfo *)

\* response.data && response.data.monitors
MonitorsOf(r) ==
    IF Has(r.data) /\ Has(Get(r.data).monitors) THEN Get(Get(r.data).monitors)
    ELSE <<>>

\* response.data && response.data.trafficInfos
TrafficInfosOf(r) ==
    IF Has(r.data) /\ Has(Get(r.data).trafficInfos)
    THEN Get(Get(r.data).trafficInfos)
    ELSE <<>>

\* variant: each response overwrites merged.data.monitors instead of being pushed
mergeAPIResponses_Overwrite(responses) ==
    Body(Some(MonitorsOf(responses[Len(responses)])),
         Some(Concat([i \in 1..Len(responses) |-> TrafficInfosOf(responses[i])])))

mergeAPIResponses(responses) ==
    Body(Some(Concat([i \in 1..Len(responses) |-> MonitorsOf(responses[i])])),
         Some(Concat([i \in 1..Len(responses) |-> TrafficInfosOf(responses[i])])))

\* the departure list the inner forEach walks: line.departures.departure, or
\* nothing when line.departures or its departure member is missing
DeparturesOf(line) ==
    IF Has(line.departures) /\ Has(Get(line.departures).departure)
    THEN Get(Get(line.departures).departure)
    ELSE <<>>

\* the line list the middle forEach walks
LinesOf(monitor) == IF Has(monitor.lines) THEN Get(monitor.lines) ELSE <<>>

\* departure.departureTime.countdown raises a TypeError without departureTime
FlattenThrows(monitors) ==
    \E m \in 1..Len(monitors) :
        \E l \in 1..Len(LinesOf(monitors[m])) :
            \E d \in 1..Len(DeparturesOf(LinesOf(monitors[m])[l])) :
                ~Has(DeparturesOf(LinesOf(monitors[m])[l])[d].departureTime)

DepartureRecord(line, departure) ==
    [line |-> line.name,
     towards |-> line.towards,
     lineType |-> IF Has(line.type) THEN Get(line.type) ELSE "ptBusCity",
     barrierFree |-> IF Has(line.barrierFree) THEN Get(line.barrierFree) ELSE FALSE,
     countdown |-> Get(departure.departureTime).countdown]

LineRecords(line) ==
    [d \in 1..Len(DeparturesOf(line)) |-> DepartureRecord(line, DeparturesOf(line)[d])]

MonitorRecords(monitor) ==
    Concat([l \in 1..Len(LinesOf(monitor)) |-> LineRecords(LinesOf(monitor)[l])])

\* the `departures` array after the three nested forEach loops
Flatten(monitors) ==
    Concat([m \in 1..Len(monitors) |-> MonitorRecords(monitors[m])])

\* where sort puts x into the sorted list s: behind every record that does not
\* compare greater (Array.prototype.sort is stable)
InsertByCountdown(s, x) ==
    LET k == Cardinality({i \in 1..Len(s) : s[i].countdown <= x.countdown})
    IN  SubSeq(s, 1, k) \o <<x>> \o SubSeq(s, k + 1, Len(s))

RECURSIVE SortByCountdown(_)
\* departures.sort((a, b) => a.countdown - b.countdown)
SortByCountdown(s) ==
    IF s = <<>> THEN <<>>
    ELSE InsertByCountdown(SortByCountdown(SubSeq(s, 1, Len(s) - 1)), s[Len(s)])

\* variant: the slice keeps the last MAX_DEPARTURES records instead of the first
Slice_Tail(s) == SubSeq(s, Len(s) - Min(Len(s), MAX_DEPARTURES) + 1, Len(s))

\* departures.slice(0, CONFIG.MAX_DEPARTURES)
Slice(s) == SubSeq(s, 1, Min(Len(s), MAX_DEPARTURES))

getLineClass(lineType) ==
    IF lineType \in {"ptBusCity", "ptBusNight"} THEN "line-bus"
    ELSE IF lineType \in {"ptTram", "ptTramWLB"} THEN "line-tram"
    ELSE IF lineType \in {"ptTrainS"} THEN "line-s"
    ELSE "line-bus"

\* variant: a departure one minute away counts as 'now' too
CountdownText_NowUpToOne(countdown) ==
    IF countdown <= 1 THEN "JETZT" ELSE ToString(countdown) \o " min"

\* the text of the countdown span
CountdownText(countdown) ==
    IF countdown = 0 THEN "JETZT"
    ELSE IF countdown = 1 THEN "1 min"
    ELSE ToString(countdown) \o " min"

createDepartureRow(departure) ==
    [line |-> departure.line,
     lineClass |-> getLineClass(departure.lineType),
     towards |-> departure.towards,
     countdown |-> departure.countdown,
     now |-> departure.countdown = 0,
     text |-> CountdownText(departure.countdown),
     barrierFree |-> departure.barrierFree]

\* the contents #departures-body can have
Table(kind, rows) == [kind |-> kind, rows |-> rows]
StaticTable == Table("static", <<>>)
LoadingTable == Table("loading", <<>>)
NoStationTable == Table("noStation", <<>>)
NoSoonTable == Table("noSoon", <<>>)
FallbackRow(line, class, towards, countdown, barrierFree) ==
    [line |-> line, lineClass |-> class, towards |-> towards, countdown |-> countdown,
     now |-> FALSE, text |-> ToString(countdown) \o " min", barrierFree |-> barrierFree]
\* the three hardcoded demo rows of showFallbackData
FallbackTable ==
    Table("fallback", <<FallbackRow("U1", "line-u", "Leopoldau", 2, TRUE),
                        FallbackRow("U3", "line-u", "Ottakring", 5, TRUE),
                        FallbackRow("2", "line-tram", "Dornbach", 8, FALSE)>>)

\* displayDepartures(data): threw tells whether it raised, tbody what it left in
\* #departures-body, departures its local array when it returned
displayDepartures(data) ==
    IF ~Has(data.data) \/ ~Has(Get(data.data).monitors)
       \/ Len(Get(Get(data.data).monitors)) = 0
    THEN [threw |-> FALSE, tbody |-> NoStationTable, departures |-> <<>>]
    ELSE IF FlattenThrows(MonitorsOf(data))
    THEN [threw |-> TRUE, tbody |-> Table("rows", <<>>), departures |-> <<>>]
    ELSE LET departures == SortByCountdown(Flatten(MonitorsOf(data)))
             shown == Slice(departures)
         IN  IF Len(departures) = 0
             THEN [threw |-> FALSE, tbody |-> NoSoonTable, departures |-> departures]
             ELSE [threw |-> FALSE,
                   tbody |-> Table("rows",
                                   [i \in 1..Len(shown) |-> createDepartureRow(shown[i])]),
                   departures |-> departures]

\* displayTrafficInfo(data): the notices left in #traffic-info-container
displayTrafficInfo(data) ==
    LET infos == TrafficInfosOf(data)
    IN  [i \in 1..Len(infos) |->
            [title |-> IF Has(infos[i].title) THEN Get(infos[i].title)
                       ELSE "Verkehrsinformation",
             description |-> IF Has(infos[i].description) THEN Get(infos[i].description)
                             ELSE "Keine Details verfuegbar"]]

----------------------------------------------------------------------------
(* The state before any script of the page has run *)

\* the two modules (IIFEs) of js/monitor.js, in the order the file runs them
Modules == {1, 2}

DefaultRBLs == <<"623", "592">>

\* updateLastUpdateTime writes the time of day; the model keeps the label
UpdatedText == "Letzte Aktualisierung"

NoError == ""
ErrorBanner == "Fehler beim Laden der Abfahrtsdaten. Bitte versuchen Sie es später erneut."

NoCycle == [id |-> 0, rbls |-> <<>>, fetched |-> <<>>, path |-> "none"]

PollInit ==
    /\ initialised = FALSE
    /\ currentRBLs = [k \in Modules |-> DefaultRBLs]
    /\ customDisplay = "none"
    /\ refreshTimer = [k \in Modules |-> FALSE]
    /\ polls = <<>>
    /\ started = 0
    /\ tbody = StaticTable
    /\ errorContainer = NoError
    /\ trafficContainer = <<>>
    /\ lastUpdate = ""
    /\ lastDone = NoCycle

RenderIdle ==
    /\ renderIn = <<>>
    /\ renderOut = Absent

NoSession == [wstw_api_key |-> Absent, wstw_logged_in |-> FALSE]

RelayIdle ==
    /\ session = NoSession
    /\ cookieFile = FALSE
    /\ request = Absent
    /\ upstream = Absent
    /\ response = Absent
    /\ lastAuth = "none"
    /\ viaProxy = "idle"

----------------------------------------------------------------------------
(* Text of the config form: trimming and the base64 encoding of the secret *)

\* a text is a sequence of characters; the characters of the model and their
\* code points (the euro sign lies outside Latin1)
CharCode ==
    [c \in {" ", "0", "1", "=", "A", "T", "a", "c", "p", "w", "ü", "€"} |->
        CASE c = " " -> 32 [] c = "0" -> 48 [] c = "1" -> 49 [] c = "=" -> 61
          [] c = "A" -> 65 [] c = "c" -> 99
          [] c = "T" -> 84
          [] c = "a" -> 97 [] c = "p" -> 112 [] c = "w" -> 119 [] c = "ü" -> 252
          [] OTHER -> 8364]
CharOf(code) == CHOOSE c \in DOMAIN CharCode : CharCode[c] = code

\* String.prototype.trim on the characters of the model
RECURSIVE TrimStart(_)
TrimStart(text) ==
    IF text # <<>> /\ Head(text) = " " THEN TrimStart(Tail(text)) ELSE text
RECURSIVE TrimEnd(_)
TrimEnd(text) ==
    IF text # <<>> /\ text[Len(text)] = " "
    THEN TrimEnd(SubSeq(text, 1, Len(text) - 1))
    ELSE text
trim(text) == TrimEnd(TrimStart(text))

\* the four base64 digits of three bytes
Sextets(b1, b2, b3) ==
    LET n == b1 * 65536 + b2 * 256 + b3
    IN  <<n \div 262144, (n \div 4096) % 64, (n \div 64) % 64, n % 64>>

\* base64 of a byte sequence: its digits and the number of '=' that follow
RECURSIVE Base64Digits(_)
Base64Digits(bytes) ==
    IF Len(bytes) = 0 THEN <<>>
    ELSE IF Len(bytes) = 1 THEN SubSeq(Sextets(bytes[1], 0, 0), 1, 2)
    ELSE IF Len(bytes) = 2 THEN SubSeq(Sextets(bytes[1], bytes[2], 0), 1, 3)
    ELSE Sextets(bytes[1], bytes[2], bytes[3])
            \o Base64Digits(SubSeq(bytes, 4, Len(bytes)))
Base64(bytes) ==
    [digits |-> Base64Digits(bytes), padding |-> (3 - (Len(bytes) % 3)) % 3]

\* the bytes of base64 digits
RECURSIVE Base64Bytes(_)
Base64Bytes(digits) ==
    IF Len(digits) < 2 THEN <<>>
    ELSE LET d(i) == IF i <= Len(digits) THEN digits[i] ELSE 0
             n == d(1) * 262144 + d(2) * 4096 + d(3) * 64 + d(4)
             bytes == <<n \div 65536, (n \div 256) % 256, n % 256>>
         IN  SubSeq(bytes, 1, Min(Len(digits), 4) - 1)
                \o Base64Bytes(SubSeq(digits, 5, Len(digits)))

\* btoa(text): throws (no result) when a character lies outside Latin1
btoa(text) ==
    IF \E i \in 1..Len(text) : CharCode[text[i]] > 255
    THEN Absent
    ELSE Some(Base64([i \in 1..Len(text) |-> CharCode[text[i]]]))

\* atob(encoded): throws (no result) when the length is not that of base64
atob(encoded) ==
    IF (Len(encoded.digits) + encoded.padding) % 4 # 0 \/ Len(encoded.digits) % 4 = 1
    THEN Absent
    ELSE LET bytes == Base64Bytes(encoded.digits)
         IN  Some([i \in 1..Len(bytes) |-> CharOf(bytes[i])])

----------------------------------------------------------------------------
(* The metering widget: stored credentials, the config modal and the polls *)

\* the record 'save' stores
Credentials(username, password, meterId) ==
    [username |-> username, password |-> password, meterId |-> meterId]

\* a stored item: JSON.stringify of a record, or a text that is no JSON
JSON_stringify(value) == [parses |-> TRUE, value |-> Some(value)]
NoJson == [parses |-> FALSE, value |-> Absent]

\* variant: a stored text that is no JSON is read as a record of empty fields
getSmartMeterCredentials_UnparsedIsBlank(storage) ==
    IF ~Has(storage) THEN Absent
    ELSE IF Get(storage).parses THEN Get(storage).value
    ELSE Some(Credentials(<<>>, Get(btoa(<<>>)), <<>>))

\* getSmartMeterCredentials(): the parsed record, or null
getSmartMeterCredentials(storage) ==
    IF Has(storage) /\ Get(storage).parses THEN Get(storage).value ELSE Absent

\* what the user can type into the form: a blank username, no password, a
\* password outside Latin1, and complete forms with and without a meter
EmptyForm == Credentials(<<>>, <<>>, <<>>)
Forms ==
    {Credentials(<<" ">>, <<"p", "ü">>, <<>>),
     Credentials(<<" ", "a">>, <<>>, <<"A", "T", "1", " ">>),
     Credentials(<<" ", "a">>, <<"€">>, <<"A", "T", "1", " ">>),
     Credentials(<<" ", "a">>, <<"p", "ü">>, <<>>),
     Credentials(<<" ", "a">>, <<"p", "ü">>, <<"A", "T", "1", " ">>)}

\* the pages the script can run on
Location(protocol, hostname) == [protocol |-> protocol, hostname |-> hostname]
Host127001 == <<"1", "2", "7", ".", "0", ".", "0", ".", "1">>
Hostnames ==
    {<<"l", "o", "c", "a", "l", "h", "o", "s", "t">>, Host127001, Host127001 \o <<"0">>,
     <<"1", "0", ".", "0", ".", "0", ".", "7">>, <<"m", ".", "a", "t">>}
Locations ==
    {Location("file:", <<>>), Location("file:", <<"n", "a", "s">>)}
        \cup {Location("https:", h) : h \in Hostnames}
ServedLocation == Location("https:", <<"m", ".", "a", "t">>)

startsWith(text, prefix) ==
    Len(text) >= Len(prefix) /\ SubSeq(text, 1, Len(prefix)) = prefix

\* isBackendAvailable()
isBackendAvailable(loc) ==
    /\ loc.hostname # <<>>
    /\ loc.hostname # <<"l", "o", "c", "a", "l", "h", "o", "s", "t">>
    /\ ~startsWith(loc.hostname, Host127001)

\* the two texts of the widget; a value text is fixed or an amount (in
\* thousandths of a kWh) followed by a unit
Smartmeter(value, period) == [value |-> value, period |-> period]
FixedValue(text) == [amount |-> Absent, text |-> text]
StaticSmartmeter == Smartmeter(FixedValue("static"), "static")
NotConfigured == Smartmeter(FixedValue("-- kWh"), "Nicht konfiguriert")
\* `${data.weeklyConsumption} ${data.unit}`
ValueText(data) == [amount |-> Some(data.weeklyConsumption), text |-> data.unit]
\* displaySmartMeterData(data)
displaySmartMeterData(data) == Smartmeter(ValueText(data), data.period)

\* the demo sample: (Math.random() * 50 + 100).toFixed(1)
DemoValues == {100000, 150000}
DemoData(amount) ==
    [weeklyConsumption |-> amount, period |-> "Demo-Daten (Backend benoetigt)",
     unit |-> "kWh"]

\* the text of an encoded secret: its digits in the base64 alphabet, then '='
Base64Alphabet ==
    <<"A", "B", "C", "D", "E", "F", "G", "H", "I", "J", "K", "L", "M", "N", "O", "P",
      "Q", "R", "S", "T", "U", "V", "W", "X", "Y", "Z", "a", "b", "c", "d", "e", "f",
      "g", "h", "i", "j", "k", "l", "m", "n", "o", "p", "q", "r", "s", "t", "u", "v",
      "w", "x", "y", "z", "0", "1", "2", "3", "4", "5", "6", "7", "8", "9", "+", "/">>
EncodedText(encoded) ==
    [i \in 1..(Len(encoded.digits) + encoded.padding) |->
        IF i <= Len(encoded.digits) THEN Base64Alphabet[encoded.digits[i] + 1] ELSE "="]

\* variant: the stored text of the secret is sent as it is, not decoded
MeterRequest_SendsStored(credentials) ==
    [action |-> "getConsumption", username |-> credentials.username,
     password |-> EncodedText(credentials.password), meterId |-> credentials.meterId,
     period |-> "week"]

\* the body of the POST of fetchSmartMeterAPI
MeterRequest(credentials) ==
    [action |-> "getConsumption", username |-> credentials.username,
     password |-> Get(atob(credentials.password)), meterId |-> credentials.meterId,
     period |-> "week"]

\* the part of the state a metering poll works on
MeterState ==
    [smartmeter |-> smartmeter, meterFetches |-> meterFetches, demoTimers |-> demoTimers,
     threw |-> FALSE]

\* variant: a poll without credentials goes on to the demo route
loadSmartMeterData_NoStop(ms, storage, loc) ==
    [ms EXCEPT !.smartmeter = Smartmeter(ms.smartmeter.value, "Lade..."),
               !.demoTimers = ms.demoTimers + 1]

\* variant: a served page gets the demo sample as well as the relay request
loadSmartMeterData_BothRoutes(ms, storage, loc) ==
    LET credentials == getSmartMeterCredentials(storage)
    IN  IF ~Has(credentials)
        THEN [ms EXCEPT !.smartmeter = NotConfigured]
        ELSE [ms EXCEPT !.smartmeter = Smartmeter(ms.smartmeter.value, "Lade..."),
                        !.demoTimers = ms.demoTimers + 1,
                        !.meterFetches = Append(ms.meterFetches,
                                                MeterRequest(Get(credentials)))]

\* loadSmartMeterData(), fetchSmartMeterAPI up to the fetch included
loadSmartMeterData(ms, storage, loc) ==
    LET credentials == getSmartMeterCredentials(storage)
    IN  IF ~Has(credentials)
        THEN [ms EXCEPT !.smartmeter = NotConfigured]
        ELSE IF loc.protocol = "file:" \/ ~isBackendAvailable(loc)
        THEN [ms EXCEPT !.smartmeter = Smartmeter(ms.smartmeter.value, "Lade..."),
                        !.demoTimers = ms.demoTimers + 1]
        ELSE IF ~Has(atob(Get(credentials).password))
        THEN [ms EXCEPT !.smartmeter = Smartmeter(ms.smartmeter.value, "Lade..."),
                        !.threw = TRUE]
        ELSE [ms EXCEPT !.smartmeter = Smartmeter(ms.smartmeter.value, "Lade..."),
                        !.meterFetches = Append(ms.meterFetches,
                                                MeterRequest(Get(credentials)))]

----------------------------------------------------------------------------
(* The weather widget *)

WeatherInfo(icon, description) == [icon |-> icon, description |-> description]

\* the keys of weatherMap
WeatherCodes == {0, 1, 2, 3, 45, 48, 51, 53, 55, 61, 63, 65, 71, 73, 75, 77, 80, 81, 82, 85, 86, 95, 96, 99}

\* weatherMap[code]; icons are named, not drawn
weatherMap(code) ==
    CASE
             code = 0 -> WeatherInfo("sun", "Klar")
          [] code = 1 -> WeatherInfo("sun-small-cloud", "Ueberwiegend klar")
          [] code = 2 -> WeatherInfo("sun-behind-cloud", "Teilweise bewoelkt")
          [] code = 3 -> WeatherInfo("cloud", "Bewoelkt")
          [] code = 45 -> WeatherInfo("fog", "Neblig")
          [] code = 48 -> WeatherInfo("fog", "Neblig")
          [] code = 51 -> WeatherInfo("sun-rain", "Leichter Nieselregen")
          [] code = 53 -> WeatherInfo("sun-rain", "Nieselregen")
          [] code = 55 -> WeatherInfo("rain", "Starker Nieselregen")
          [] code = 61 -> WeatherInfo("rain", "Leichter Regen")
          [] code = 63 -> WeatherInfo("rain", "Regen")
          [] code = 65 -> WeatherInfo("rain", "Starker Regen")
          [] code = 71 -> WeatherInfo("snow", "Leichter Schneefall")
          [] code = 73 -> WeatherInfo("snow", "Schneefall")
          [] code = 75 -> WeatherInfo("snow", "Starker Schneefall")
          [] code = 77 -> WeatherInfo("snow", "Schneegriesel")
          [] code = 80 -> WeatherInfo("sun-rain", "Leichte Schauer")
          [] code = 81 -> WeatherInfo("rain", "Schauer")
          [] code = 82 -> WeatherInfo("thunder-rain", "Starke Schauer")
          [] code = 85 -> WeatherInfo("snow", "Leichte Schneeschauer")
          [] code = 86 -> WeatherInfo("snow", "Schneeschauer")
          [] code = 95 -> WeatherInfo("thunder-rain", "Gewitter")
          [] code = 96 -> WeatherInfo("thunder-rain", "Gewitter mit Hagel")
          [] code = 99 -> WeatherInfo("thunder-rain", "Starkes Gewitter")

\* variant: the lookup tests the code itself before the table
getWeatherInfo_ZeroIsUnknown(code) ==
    IF Has(code) /\ Get(code) # 0 /\ Get(code) \in WeatherCodes
    THEN weatherMap(Get(code))
    ELSE WeatherInfo("thermometer", "Unbekannt")

\* getWeatherInfo(code); code is empty when the block has no weather_code
getWeatherInfo(code) ==
    IF Has(code) /\ Get(code) \in WeatherCodes
    THEN weatherMap(Get(code))
    ELSE WeatherInfo("thermometer", "Unbekannt")

\* Math.round of a temperature given in tenths of a degree
MathRound(tenths) == (tenths + 5) \div 10

\* the three texts of the widget
StaticWeather == [temp |-> "static", degrees |-> 0, icon |-> "static", desc |-> "static"]
Unavailable == "Wetter nicht verfuegbar"

\* displayWeather(current)
displayWeather(current) ==
    LET weatherInfo == getWeatherInfo(current.weather_code)
    IN  [temp |-> IF Has(current.temperature_2m) THEN "degrees" ELSE "NaN",
         degrees |-> IF Has(current.temperature_2m)
                     THEN MathRound(Get(current.temperature_2m)) ELSE 0,
         icon |-> weatherInfo.icon, desc |-> weatherInfo.description]

\* the current-conditions block of a forecast
Current(temperature_2m, weather_code) ==
    [temperature_2m |-> temperature_2m, weather_code |-> weather_code]
NoCurrent == Current(Absent, Absent)

\* what a weather fetch can come to: the request fails, or a response whose
\* body is no JSON, is null, or is an object with or without a current block
WeatherFailed == [network |-> TRUE, ok |-> FALSE, parses |-> FALSE, isNull |-> FALSE,
                  current |-> Absent]
WeatherResponse(ok, parses, isNull, current) ==
    [network |-> FALSE, ok |-> ok, parses |-> parses, isNull |-> isNull,
     current |-> current]
Currents ==
    {Current(t, c) : t \in {Absent, Some(215), Some(0 - 25)},
                     c \in {Absent, Some(4), Some(100)} \cup {Some(w) : w \in WeatherCodes}}
WeatherOutcomes ==
    {WeatherFailed}
        \cup {WeatherResponse(ok, FALSE, FALSE, Absent) : ok \in BOOLEAN}
        \cup {WeatherResponse(ok, TRUE, TRUE, Absent) : ok \in BOOLEAN}
        \cup {WeatherResponse(ok, TRUE, FALSE, Absent) : ok \in BOOLEAN}
        \cup {WeatherResponse(ok, TRUE, FALSE, Some(c)) : ok \in BOOLEAN, c \in Currents}

\* variant: a response that is not OK or has no current block is an error too
WeatherCallbacks_Strict(view, outcome) ==
    IF outcome.network \/ ~outcome.ok \/ ~outcome.parses \/ outcome.isNull
            \/ ~Has(outcome.current)
    THEN [view EXCEPT !.desc = Unavailable]
    ELSE displayWeather(Get(outcome.current))

\* the then and catch callbacks of loadWeather on the widget
WeatherCallbacks(view, outcome) ==
    IF outcome.network \/ ~outcome.parses \/ outcome.isNull
    THEN [view EXCEPT !.desc = Unavailable]
    ELSE IF ~Has(outcome.current)
    THEN view
    ELSE displayWeather(Get(outcome.current))

----------------------------------------------------------------------------
(* The widgets before init *)

MeterIdle ==
    /\ form = EmptyForm
    /\ modalActive = FALSE
    /\ smartmeter = StaticSmartmeter
    /\ meterFetches = <<>>
    /\ demoTimers = 0
    /\ hintTimers = 0
    /\ meterPolls = 0
    /\ lastEvent = "none"

WeatherIdle ==
    /\ weatherFetches = 0
    /\ weatherPolls = 0
    /\ weather = StaticWeather
    /\ weatherDone = Absent

NoFeedTimers == [weather |-> 0, smartmeter |-> 0]

WidgetIdle ==
    /\ location = ServedLocation
    /\ localStorage = Absent
    /\ MeterIdle
    /\ WeatherIdle
    /\ feedTimers = NoFeedTimers

----------------------------------------------------------------------------
(* The departure poller: loadDepartures and its completion callbacks *)

\* what one fetch of a cycle can come to: the request fails, the status is not
\* OK, the body is not JSON, or the body parses to a JSON value
Failed(kind) == [kind |-> kind, body |-> JsonNull]
Parsed(body) == [kind |-> "ok", body |-> body]
FailureOutcomes == {Failed("network"), Failed("status"), Failed("syntax")}

\* the feed-shaped bodies stop rbl answers with in the poller: no data member;
\* one departure and no notice; two departures (later one first) and a notice
PollBodies(rbl) ==
    {NoData,
     Body(Some(<<Monitor(Some(<<Line(LineName(rbl, 1, 1), Some("ptTram"),
                                      Departures(DepartureList(<<2>>)))>>))>>),
          Some(<<>>)),
     Body(Some(<<Monitor(Some(<<Line(LineName(rbl, 1, 1), Absent,
                                      Departures(DepartureList(<<1, 0>>)))>>))>>),
          Some(<<Notice(rbl)>>))}

\* a body that parses but is not feed-shaped: a departure without departureTime
MalformedBodies(rbl) ==
    {Body(Some(<<Monitor(Some(<<Line(LineName(rbl, 1, 1), Some("ptTram"),
                                      Departures(<<Departure(1), BareDeparture>>))>>))>>),
          Some(<<>>))}

FeedOutcomes(rbl) == FailureOutcomes \cup {Parsed(b) : b \in PollBodies(rbl)}
AnyOutcomes(rbl) == FeedOutcomes(rbl) \cup {Parsed(b) : b \in MalformedBodies(rbl)}

\* the stop lists the station select offers, and the one typed as custom entry
StationValues == {DefaultRBLs, <<"147">>}
CustomValues == {<<"147">>}
Stops == {"623", "592", "147"}

\* fetch(url).then(response => ...).catch(error => null) of one stop
fetchResult(outcome) ==
    IF outcome.kind = "ok" THEN outcome.body ELSE JsonNull

\* variant: a cycle with a failed fetch keeps no result at all
validResultsOf_AllOrNothing(results) ==
    IF \E i \in 1..Len(results) : results[i].isNull THEN <<>> ELSE results

\* results.filter(data => data !== null)
validResultsOf(results) == SelectSeq(results, LAMBDA data : ~data.isNull)

\* the part of the page the departure poller writes
View == [tbody |-> tbody, errorContainer |-> errorContainer,
         trafficContainer |-> trafficContainer, lastUpdate |-> lastUpdate]

\* .catch(error => { showError(...); showFallbackData(); })
\* variant: the catch callback shows the banner and leaves the table alone
CatchView_BannerOnly(view) == [view EXCEPT !.errorContainer = ErrorBanner]

CatchView(view) ==
    [view EXCEPT !.errorContainer = ErrorBanner, !.tbody = FallbackTable]

\* variant: the callbacks of a cycle that is not the newest leave the page alone
ThenView_NewestOnly(view, poll, results) ==
    IF poll.id < started THEN [view |-> view, path |-> "rendered"]
    ELSE IF Len(validResultsOf(results)) = 0
    THEN [view |-> CatchView(view), path |-> "failed"]
    ELSE [view |-> [view EXCEPT
                       !.tbody = displayDepartures(
                                     mergeAPIResponses(validResultsOf(results))).tbody],
          path |-> "rendered"]

\* variant: the traffic notices are taken from the merged data
ThenView_MergedNotices(view, poll, results) ==
    LET validResults == validResultsOf(results)
        shown == displayDepartures(mergeAPIResponses(validResults))
    IN  IF Len(validResults) = 0
        THEN [view |-> CatchView(view), path |-> "failed"]
        ELSE IF shown.threw
        THEN [view |-> CatchView([view EXCEPT !.tbody = shown.tbody]), path |-> "failed"]
        ELSE [view |-> [view EXCEPT !.tbody = shown.tbody,
                                    !.trafficContainer =
                                        displayTrafficInfo(mergeAPIResponses(validResults)),
                                    !.lastUpdate = UpdatedText],
              path |-> "rendered"]

\* Promise.all(fetchPromises).then(results => ...).catch(...): the page after the
\* callbacks of cycle poll ran on results, and the path they took
ThenView(view, poll, results) ==
    LET validResults == validResultsOf(results)
        shown == displayDepartures(mergeAPIResponses(validResults))
    IN  IF Len(validResults) = 0
        THEN [view |-> CatchView(view), path |-> "failed"]
        ELSE IF shown.threw
        THEN [view |-> CatchView([view EXCEPT !.tbody = shown.tbody]), path |-> "failed"]
        ELSE [view |-> [view EXCEPT !.tbody = shown.tbody,
                                    !.trafficContainer = displayTrafficInfo(validResults[1]),
                                    !.lastUpdate = UpdatedText],
              path |-> "rendered"]

\* loadDepartures() of module k: the fetches of cycle n over the stop list rbls
\* join the cycles ps in flight (it also shows the loading row and clears the
\* error banner, which the callers below write)
StartCycle(ps, n, k, rbls) == Append(ps, [id |-> n, rbls |-> rbls])

\* init() of module 1 and then of module 2 (the file runs both): each registers
\* its listeners, starts a cycle and arms its refresh timer
init ==
    /\ ~initialised
    /\ initialised' = TRUE
    /\ polls' = StartCycle(StartCycle(polls, started + 1, 1, currentRBLs[1]),
                           started + 2, 2, currentRBLs[2])
    /\ started' = started + 2
    /\ tbody' = LoadingTable
    /\ errorContainer' = NoError
    /\ weatherFetches' = weatherFetches + 1
    /\ weatherPolls' = weatherPolls + 1
    /\ LET ms == loadSmartMeterData(MeterState, localStorage, location)
       IN  /\ smartmeter' = ms.smartmeter
           /\ meterFetches' = ms.meterFetches
           /\ demoTimers' = ms.demoTimers
           /\ meterPolls' = meterPolls + 1
           /\ refreshTimer' = [k \in Modules |-> k = 1 \/ ~ms.threw]
           /\ feedTimers' = IF ms.threw THEN feedTimers
                            ELSE [weather |-> 1, smartmeter |-> 1]
    /\ lastEvent' = "init"
    /\ UNCHANGED <<currentRBLs, customDisplay, trafficContainer, lastUpdate, lastDone>>
    /\ UNCHANGED <<location, localStorage, form, modalActive, hintTimers, weather,
                   weatherDone>>
    /\ UNCHANGED <<renderVars, relayVars>>

\* setInterval(loadDepartures, CONFIG.REFRESH_INTERVAL) of module k fires
RefreshTick(k) ==
    /\ refreshTimer[k]
    /\ started < MaxCycles
    /\ polls' = StartCycle(polls, started + 1, k, currentRBLs[k])
    /\ started' = started + 1
    /\ tbody' = LoadingTable
    /\ errorContainer' = NoError
    /\ UNCHANGED <<initialised, currentRBLs, customDisplay, refreshTimer,
                   trafficContainer, lastUpdate, lastDone>>
    /\ UNCHANGED <<renderVars, relayVars, widgetVars>>

\* the change listeners of both modules on #station-select, value 'custom'
SelectCustom ==
    /\ initialised
    /\ customDisplay' = "inline-block"
    /\ UNCHANGED <<initialised, currentRBLs, refreshTimer, polls, started, tbody,
                   errorContainer, trafficContainer, lastUpdate, lastDone>>
    /\ UNCHANGED <<renderVars, relayVars, widgetVars>>

\* both modules set their stop list to rbls and call loadDepartures
SetStops(rbls) ==
    /\ started + 2 <= MaxCycles
    /\ currentRBLs' = [k \in Modules |-> rbls]
    /\ polls' = StartCycle(StartCycle(polls, started + 1, 1, rbls), started + 2, 2, rbls)
    /\ started' = started + 2
    /\ tbody' = LoadingTable
    /\ errorContainer' = NoError

\* the change listeners of both modules on #station-select, a stop list chosen
SelectStation(rbls) ==
    /\ initialised
    /\ customDisplay' = "none"
    /\ SetStops(rbls)
    /\ UNCHANGED <<initialised, refreshTimer, trafficContainer, lastUpdate, lastDone>>
    /\ UNCHANGED <<renderVars, relayVars, widgetVars>>

\* the keypress listeners of both modules on #custom-rbl: Enter on a non-empty entry
CustomEnter(rbls) ==
    /\ initialised
    /\ customDisplay = "inline-block"
    /\ SetStops(rbls)
    /\ UNCHANGED <<initialised, customDisplay, refreshTimer, trafficContainer,
                   lastUpdate, lastDone>>
    /\ UNCHANGED <<renderVars, relayVars, widgetVars>>

\* every fetch of the cycle at position i of polls has settled with outcomes outs:
\* the callbacks of its Promise.all run
Complete(i, outs) ==
    LET poll == polls[i]
        after == ThenView(View, poll, [j \in 1..Len(outs) |-> fetchResult(outs[j])])
    IN  /\ polls' = SubSeq(polls, 1, i - 1) \o SubSeq(polls, i + 1, Len(polls))
        /\ tbody' = after.view.tbody
        /\ errorContainer' = after.view.errorContainer
        /\ trafficContainer' = after.view.trafficContainer
        /\ lastUpdate' = after.view.lastUpdate
        /\ lastDone' = [id |-> poll.id, rbls |-> poll.rbls,
                        fetched |-> [j \in 1..Len(outs) |->
                                        [ok |-> outs[j].kind = "ok", body |-> outs[j].body]],
                        path |-> after.path]
        /\ UNCHANGED <<initialised, currentRBLs, customDisplay, refreshTimer, started>>
        /\ UNCHANGED <<renderVars, relayVars, widgetVars>>

RECURSIVE OutcomeLists(_, _)
\* the outcome lists a cycle over the stops rbls can settle with; feedShaped
\* tells whether every body that parses is feed-shaped
OutcomeLists(rbls, feedShaped) ==
    IF rbls = <<>> THEN {<<>>}
    ELSE {<<o>> \o rest :
            o \in IF feedShaped THEN FeedOutcomes(Head(rbls)) ELSE AnyOutcomes(Head(rbls)),
            rest \in OutcomeLists(Tail(rbls), feedShaped)}

\* a cycle in flight completes on feed-shaped bodies
CompleteFeed ==
    \E i \in 1..Len(polls) : \E outs \in OutcomeLists(polls[i].rbls, TRUE) :
        Complete(i, outs)

\* a cycle in flight completes on bodies of any content
CompleteAny ==
    \E i \in 1..Len(polls) : \E outs \in OutcomeLists(polls[i].rbls, FALSE) :
        Complete(i, outs)

InitPoll == PollInit /\ RenderIdle /\ RelayIdle /\ WidgetIdle

NextPoll ==
    \/ init
    \/ \E k \in Modules : RefreshTick(k)
    \/ SelectCustom
    \/ \E rbls \in StationValues : SelectStation(rbls)
    \/ \E rbls \in CustomValues : CustomEnter(rbls)
    \/ CompleteFeed

NextPollAny ==
    \/ init
    \/ \E k \in Modules : RefreshTick(k)
    \/ SelectCustom
    \/ \E rbls \in StationValues : SelectStation(rbls)
    \/ \E rbls \in CustomValues : CustomEnter(rbls)
    \/ CompleteAny

\* the departure poller on a feed that answers with feed-shaped bodies
SpecPoll == InitPoll /\ [][NextPoll]_vars

\* the departure poller on a feed that answers with bodies of any content
SpecPollAny == InitPoll /\ [][NextPollAny]_vars

\* the Promise.all of a cycle in flight settles and its callbacks have run: the
\* cycle is in flight no more (a step of CompleteAny, whatever the outcomes)
Settles ==
    \E i \in 1..Len(polls) :
        polls' = SubSeq(polls, 1, i - 1) \o SubSeq(polls, i + 1, Len(polls))

\* the same poller when every fetch of a cycle in flight settles in the end: the
\* event loop then runs the callbacks of its Promise.all
SpecPollLive == InitPoll /\ [][NextPollAny]_vars /\ WF_polls(Settles)

----------------------------------------------------------------------------
(* Render harness: mergeAPIResponses and displayDepartures as pure functions of *)
(* the validResults list of one cycle                                           *)

\* the validResults lists of a cycle over the default stops: the body of one
\* stop, or the bodies of both in stop order
RenderInputs ==
    {<<a>> : a \in RenderBodies(DefaultRBLs[1])}
        \cup {<<a, b>> : a \in RenderBodies(DefaultRBLs[1]),
                         b \in RenderBodies(DefaultRBLs[2])}

InitRender ==
    /\ PollInit
    /\ RelayIdle
    /\ WidgetIdle
    /\ renderIn \in RenderInputs
    /\ renderOut = Absent

\* const mergedData = mergeAPIResponses(validResults); displayDepartures(mergedData)
RenderValidResults ==
    /\ ~Has(renderOut)
    /\ renderOut' = Some(displayDepartures(mergeAPIResponses(renderIn)))
    /\ UNCHANGED <<renderIn, pollVars, relayVars, widgetVars>>

NextRender == RenderValidResults

SpecRender == InitRender /\ [][NextRender]_vars

----------------------------------------------------------------------------
(* Claims about merging, flattening, sorting and truncating *)

\* where the departures of a list of responses sit: <<response, monitor, line,
\* departure>> indices
Sites(responses) ==
    UNION {UNION {UNION {{<<r, m, l, d>> :
                            d \in 1..Len(DeparturesOf(LinesOf(MonitorsOf(responses[r])[m])[l]))} :
                         l \in 1..Len(LinesOf(MonitorsOf(responses[r])[m]))} :
                  m \in 1..Len(MonitorsOf(responses[r]))} :
           r \in 1..Len(responses)}

SiteLine(responses, s) == LinesOf(MonitorsOf(responses[s[1]])[s[2]])[s[3]]
SiteCountdown(responses, s) ==
    Get(DeparturesOf(SiteLine(responses, s))[s[4]].departureTime).countdown

\* the departures of a list of responses, each with its site: <<site, line name,
\* countdown>>
InputDepartures(responses) ==
    {<<s, SiteLine(responses, s).name, SiteCountdown(responses, s)>> :
        s \in Sites(responses)}

\* how many entries of the list rs (records or rows) are of line n with countdown c
ListCount(rs, n, c) ==
    Cardinality({i \in 1..Len(rs) : rs[i].line = n /\ rs[i].countdown = c})

\* how many entries of the list rs have countdown c
CountdownCount(rs, c) == Cardinality({i \in 1..Len(rs) : rs[i].countdown = c})

\* C3: merging and flattening a list of successful responses yields one
\* departure record for every departure of every line of every monitor of every
\* response, nothing dropped and nothing duplicated, and the rows rendered are in
\* non-decreasing order of countdown.
C3_OneRecordPerDepartureRowsSorted ==
    Has(renderOut) =>
        LET out == Get(renderOut)
            input == InputDepartures(renderIn)
        IN  /\ Len(out.departures) = Cardinality(input)
            /\ \A i \in 1..Len(out.departures) :
                   \E x \in input : /\ x[2] = out.departures[i].line
                                    /\ x[3] = out.departures[i].countdown
            /\ \A x \in input :
                   ListCount(out.departures, x[2], x[3])
                       = Cardinality({y \in input : y[2] = x[2] /\ y[3] = x[3]})
            /\ \A i \in 1..(Len(out.tbody.rows) - 1) :
                   out.tbody.rows[i].countdown <= out.tbody.rows[i + 1].countdown

\* C3 witness: two responses were merged, both contribute departures, and a
\* departure of the first is later than one of the second (the flat order is
\* not the sorted order).
C3_Witness ==
    /\ Has(renderOut)
    /\ Len(renderIn) = 2
    /\ Get(renderOut).tbody.kind = "rows"
    /\ \E x \in InputDepartures(renderIn) : \E y \in InputDepartures(renderIn) :
           /\ x[1][1] = 1
           /\ y[1][1] = 2
           /\ x[3] > y[3]

----------------------------------------------------------------------------
(* Claims about the departure poller *)

\* the bodies of the fetches of a completed cycle that succeeded, in stop order
OkBodies(done) ==
    LET ok == SelectSeq(done.fetched, LAMBDA f : f.ok)
    IN  [j \in 1..Len(ok) |-> ok[j].body]

AllFetchesFailed(done) == \A j \in 1..Len(done.fetched) : ~done.fetched[j].ok

\* C1: a departure cycle ends on the failure path (error banner plus the demo
\* table) if and only if every fetch of the cycle failed, whatever the content of
\* the successful responses.
C1_FailurePathIffAllFetchesFailed ==
    [][lastDone' # lastDone =>
          ((errorContainer' = ErrorBanner /\ tbody' = FallbackTable)
              <=> AllFetchesFailed(lastDone'))]_vars

\* C2: a failed fetch is replaced by null and dropped, and the cycle renders the
\* merged departures of exactly the stops whose fetch succeeded: when a cycle
\* with at least one successful fetch completes, the table holds one row for
\* every departure the successful bodies hold and no other row.
C2_RendersExactlyTheSuccessfulStops ==
    [][(lastDone' # lastDone /\ ~AllFetchesFailed(lastDone')) =>
          LET input == InputDepartures(OkBodies(lastDone'))
          IN  /\ tbody'.kind \in {"rows", "noStation", "noSoon"}
              /\ Len(tbody'.rows) = Cardinality(input)
              /\ \A x \in input :
                     ListCount(tbody'.rows, x[2], x[3])
                         = Cardinality({y \in input : y[2] = x[2] /\ y[3] = x[3]})]_vars

\* C2 witness: a cycle over two stops completed with one fetch failed and one
\* succeeded, and the table shows the rows of the stop that succeeded.
C2_Witness ==
    /\ Len(lastDone.fetched) = 2
    /\ ~lastDone.fetched[1].ok
    /\ lastDone.fetched[2].ok
    /\ tbody.kind = "rows"
    /\ \A i \in 1..Len(tbody.rows) : tbody.rows[i].line = LineName(lastDone.rbls[2], 1, 1)

\* what a completed cycle puts into the table
OutputTable(done) ==
    IF AllFetchesFailed(done) THEN FallbackTable
    ELSE displayDepartures(mergeAPIResponses(OkBodies(done))).tbody

\* C5: a new poll never cancels a poll in flight (the cycles in flight stay in
\* flight when a cycle is started), and once every cycle has completed the table
\* shows the output of the cycle whose completion callback ran last, whatever
\* the order the cycles were started in.
C5_LastCompletionWins ==
    /\ []((polls = <<>> /\ lastDone.id # 0) => tbody = OutputTable(lastDone))
    /\ [][started' > started =>
             /\ Len(polls') > Len(polls)
             /\ SubSeq(polls', 1, Len(polls)) = polls]_vars

\* C5 witness: every cycle has completed, the one that completed last was not
\* the one started last, and the table shows its rows.
C5_Witness ==
    /\ polls = <<>>
    /\ lastDone.id # 0
    /\ lastDone.id < started
    /\ tbody.kind = "rows"
    /\ tbody = OutputTable(lastDone)

\* C6: right after the completion callback of a cycle ran, every part of the
\* departure view is determined by that cycle's result alone: after a successful
\* cycle the table holds its rows, the traffic notices are those of its first
\* successful response and no error banner is shown; after a failed cycle the
\* demo table and the banner are shown and no traffic notices.
C6_CycleReplacesPriorOutput ==
    [][lastDone' # lastDone =>
          /\ tbody' = OutputTable(lastDone')
          /\ errorContainer' = IF AllFetchesFailed(lastDone') THEN ErrorBanner ELSE NoError
          /\ trafficContainer' = IF AllFetchesFailed(lastDone') THEN <<>>
                                 ELSE displayTrafficInfo(OkBodies(lastDone')[1])]_vars

----------------------------------------------------------------------------
(* The metering relay inc/smartmeter-proxy.php: one run of the script per request *)

\* substr($response, 0, 200)
ExcerptLen == 200

\* a form or query field: absent, or present with a string value
FieldValues == {Absent, Some(""), Some("0"), Some("secret")}
MeterValues == {Absent, Some(""), Some("0"), Some("AT001")}
ActionValues == {Absent, Some("login"), Some("getConsumption"), Some("logout"),
                 Some("export")}
PeriodValues == {Absent, Some("day"), Some("week"), Some("month"), Some("year"),
                 Some("decade")}

Fields(action, apiKey, password, meterId, period) ==
    [action |-> action, apiKey |-> apiKey, password |-> password, meterId |-> meterId,
     period |-> period]
NoFields == Fields(Absent, Absent, Absent, Absent, Absent)

\* a request: its method, $_POST and $_GET
Request(method, post, get) == [method |-> method, post |-> post, get |-> get]

\* the requests of the model: form posts (with or without a meterId in the query
\* string), form posts of a valid key and meter with every period, plain GETs
\* with a query string, and the CORS preflight
Requests ==
    {Request("POST", Fields(a, k1, k2, m, p), Fields(Absent, Absent, Absent, gm, Absent)) :
        a \in ActionValues, k1 \in FieldValues, k2 \in FieldValues, m \in MeterValues,
        p \in {Absent, Some("month")}, gm \in {Absent, Some("AT002")}}
    \cup {Request("POST", Fields(Some("getConsumption"), Absent, Some("secret"),
                                Some("AT001"), p), NoFields) : p \in PeriodValues}
    \cup {Request("GET", NoFields, Fields(a, Absent, Absent, m, p)) :
            a \in ActionValues, m \in {Absent, Some("AT001")},
            p \in {Absent, Some("year")}}
    \cup {Request("OPTIONS", NoFields, NoFields)}

\* a ?? b
Coalesce(a, b) == IF Has(a) THEN a ELSE b
\* a ?? '' as a string
OrEmpty(a) == IF Has(a) THEN Get(a) ELSE ""
\* empty($s) for a string
empty(str) == str \in {"", "0"}

\* readings of an upstream payload, values in thousandths of a kWh
Reading(value, wert, consumption, verbrauch) ==
    [value |-> value, wert |-> wert, consumption |-> consumption, verbrauch |-> verbrauch]
\* a decoded upstream payload: each of the three lists is optional
Payload(values, messwerte, data) ==
    [values |-> values, messwerte |-> messwerte, data |-> data]

\* bytes of an upstream body: an ASCII character, or the lead or continuation
\* byte of a two-byte UTF-8 character
Ascii == "a"
LeadByte == "lead"
ContByte == "cont"
\* an upstream body of n ASCII bytes
Text(n) == [i \in 1..n |-> Ascii]
\* an upstream body of n bytes with one two-byte character at bytes at, at + 1
TextWith(n, at) ==
    [i \in 1..n |-> IF i = at THEN LeadByte ELSE IF i = at + 1 THEN ContByte ELSE Ascii]

\* sample lists of readings: empty; primary fields of the values schema and
\* its alternate; both fields and neither; the fields of the data schema
ReadingLists ==
    {<<>>,
     <<Reading(Some(1005), Absent, Absent, Absent),
       Reading(Absent, Some(2003), Absent, Absent)>>,
     <<Reading(Some(10), Some(324), Absent, Absent),
       Reading(Absent, Absent, Absent, Absent)>>,
     <<Reading(Absent, Absent, Some(75), Absent),
       Reading(Absent, Absent, Absent, Some(5))>>}

\* the payloads a 200 answer of the vendor API decodes to: each of the three
\* lists absent or one of the sample lists
Payloads ==
    {Payload(v, m, d) : v \in {Absent} \cup {Some(l) : l \in ReadingLists},
                        m \in {Absent} \cup {Some(l) : l \in ReadingLists},
                        d \in {Absent} \cup {Some(l) : l \in ReadingLists}}

\* what the vendor API answers: curl fails, or an HTTP status with a body that
\* decodes to a payload or is no JSON
CurlError == [curlError |-> "timeout", httpCode |-> 0, body |-> <<>>, json |-> Absent]
HttpReply(code, body, json) ==
    [curlError |-> "", httpCode |-> code, body |-> body, json |-> json]
UpstreamStatuses == {200, 401, 403, 404, 500, 503}
ErrorBodies ==
    {Text(0), Text(ExcerptLen), Text(ExcerptLen + 1), TextWith(40, 10),
     TextWith(ExcerptLen + 1, ExcerptLen)}
UpstreamReplies ==
    {CurlError}
        \cup {HttpReply(200, Text(40), Some(pl)) : pl \in Payloads}
        \cup {HttpReply(c, b, Absent) : c \in UpstreamStatuses, b \in ErrorBodies}

RECURSIVE SumSeq(_)
SumSeq(ns) == IF ns = <<>> THEN 0 ELSE Head(ns) + SumSeq(Tail(ns))

\* floatval($reading[first] ?? $reading[second] ?? 0)
ReadingValue(first, second) ==
    IF Has(first) THEN Get(first) ELSE IF Has(second) THEN Get(second) ELSE 0

\* round($totalConsumption, 2) on thousandths: to the nearest hundredth, halves
\* away from zero
round2(t) ==
    IF t >= 0 THEN ((t + 5) \div 10) * 10 ELSE 0 - (((0 - t) + 5) \div 10) * 10

\* variant: every list present is summed
totalConsumption_AllLists(data) ==
    LET sumOf(list, useFirst) ==
            IF Has(list)
            THEN SumSeq([i \in 1..Len(Get(list)) |->
                    IF useFirst = "value"
                    THEN ReadingValue(Get(list)[i].value, Get(list)[i].wert)
                    ELSE IF useFirst = "wert"
                    THEN ReadingValue(Get(list)[i].wert, Get(list)[i].value)
                    ELSE ReadingValue(Get(list)[i].consumption, Get(list)[i].verbrauch)])
            ELSE 0
    IN  sumOf(data.values, "value") + sumOf(data.messwerte, "wert")
            + sumOf(data.data, "consumption")

\* the foreach loops over whichever of the three lists is present first
totalConsumption(data) ==
    IF Has(data.values)
    THEN SumSeq([i \in 1..Len(Get(data.values)) |->
                    ReadingValue(Get(data.values)[i].value, Get(data.values)[i].wert)])
    ELSE IF Has(data.messwerte)
    THEN SumSeq([i \in 1..Len(Get(data.messwerte)) |->
                    ReadingValue(Get(data.messwerte)[i].wert, Get(data.messwerte)[i].value)])
    ELSE IF Has(data.data)
    THEN SumSeq([i \in 1..Len(Get(data.data)) |->
                    ReadingValue(Get(data.data)[i].consumption, Get(data.data)[i].verbrauch)])
    ELSE 0

\* substr($response, 0, 200): the first 200 bytes
substr(body) == SubSeq(body, 1, Min(Len(body), ExcerptLen))

\* a byte string is well-formed UTF-8 when lead and continuation bytes pair up
ValidUtf8(bytes) ==
    \A i \in 1..Len(bytes) :
        /\ bytes[i] = LeadByte => i < Len(bytes) /\ bytes[i + 1] = ContByte
        /\ bytes[i] = ContByte => i > 1 /\ bytes[i - 1] = LeadByte

\* an error message: its fixed text, and for 'API error' the status and the
\* excerpt appended to it
Message(text) == [text |-> text, code |-> 0, excerpt |-> <<>>]
ApiErrorMessage(code, excerpt) == [text |-> "API error: HTTP", code |-> code, excerpt |-> excerpt]
NoMessage == Message("")
NoSuccessData == [message |-> "", weeklyConsumption |-> 0, period |-> "", unit |-> "",
              rawData |-> Absent]

\* echo json_encode($value): json_encode returns false on malformed UTF-8 and
\* echo of false prints nothing
json_encode(value) == IF ValidUtf8(value.error.excerpt) THEN Some(value) ELSE Absent

\* success($data)
success(data) ==
    [status |-> 200, body |-> json_encode([success |-> TRUE, data |-> data, error |-> NoMessage])]

\* error($message, $code = 400)
error(message, code) ==
    [status |-> code,
     body |-> json_encode([success |-> FALSE, data |-> NoSuccessData, error |-> message])]

\* variant: a keyword the switch does not know gets the week
WindowOf_UnknownIsWeek(period) ==
    CASE period = "day" -> [years |-> 0, days |-> 1]
      [] period = "month" -> [years |-> 0, days |-> 30]
      [] period = "year" -> [years |-> 1, days |-> 0]
      [] OTHER -> [years |-> 0, days |-> 7]

\* $startDate->modify(...) of the switch on $period: how far dateFrom lies
\* before dateTo
WindowOf(period) ==
    CASE period = "day" -> [years |-> 0, days |-> 1]
      [] period = "week" -> [years |-> 0, days |-> 7]
      [] period = "month" -> [years |-> 0, days |-> 30]
      [] period = "year" -> [years |-> 1, days |-> 0]
      [] OTHER -> [years |-> 0, days |-> 0]

\* $_POST['action'] ?? $_GET['action'] ?? ''
ActionOf(req) == OrEmpty(Coalesce(req.post.action, req.get.action))
\* $_POST['password'] ?? $_POST['apiKey'] ?? ''
ConsumptionKeyOf(req) == OrEmpty(Coalesce(req.post.password, req.post.apiKey))
\* $_POST['apiKey'] ?? $_POST['password'] ?? ''
LoginKeyOf(req) == OrEmpty(Coalesce(req.post.apiKey, req.post.password))
\* $_POST['meterId'] ?? $_GET['meterId'] ?? ''
MeterIdOf(req) == OrEmpty(Coalesce(req.post.meterId, req.get.meterId))
\* $_POST['period'] ?? $_GET['period'] ?? 'week'
PeriodOf(req) ==
    IF Has(Coalesce(req.post.period, req.get.period))
    THEN Get(Coalesce(req.post.period, req.get.period))
    ELSE "week"

\* variants of the two checks of getConsumption: the meter is not checked; the
\* meter is checked before the key
RejectRequest_KeyOnly(apiKey, meterId) ==
    IF empty(apiKey) THEN Some(error(Message("API Key required"), 401)) ELSE Absent
RejectRequest_MeterFirst(apiKey, meterId) ==
    IF empty(meterId)
    THEN Some(error(Message("Zaehlpunktnummer (meterId) is required"), 400))
    ELSE IF empty(apiKey)
    THEN Some(error(Message("API Key required"), 401))
    ELSE Absent

\* the two checks of getConsumption before anything is sent upstream: the
\* error response, if one of them rejects the request
RejectRequest(apiKey, meterId) ==
    IF empty(apiKey)
    THEN Some(error(Message("API Key required"), 401))
    ELSE IF empty(meterId)
    THEN Some(error(Message("Zaehlpunktnummer (meterId) is required"), 400))
    ELSE Absent

\* what getConsumption answers once curl_exec has returned
RelayReply(reply) ==
    IF reply.curlError # ""
    THEN error(Message("Connection error"), 500)
    ELSE IF reply.httpCode = 200
    THEN IF ~Has(reply.json)
         THEN error(Message("Invalid JSON response"), 500)
         ELSE success([message |-> "",
                       weeklyConsumption |-> round2(totalConsumption(Get(reply.json))),
                       period |-> "Diese Woche", unit |-> "kWh",
                       rawData |-> reply.json])
    ELSE IF reply.httpCode = 401
    THEN error(Message("Unauthorized: Invalid API Key"), 401)
    ELSE IF reply.httpCode = 404
    THEN error(Message("Zaehlpunkt nicht gefunden"), 404)
    ELSE error(ApiErrorMessage(reply.httpCode, substr(reply.body)), reply.httpCode)

\* the request sent to the vendor API
UpstreamCall(apiKey, meterId, period, reply) ==
    [meterId |-> meterId, xApiKey |-> apiKey, window |-> WindowOf(period),
     granularity |-> "DAY", reply |-> reply]

Pending == Has(request) /\ ~Has(response)

\* if ($_SERVER['REQUEST_METHOD'] === 'OPTIONS') { http_response_code(200); exit(); }
Preflight ==
    /\ Pending
    /\ Get(request).method = "OPTIONS"
    /\ response' = Some([status |-> 200, body |-> Absent])
    /\ UNCHANGED <<session, cookieFile, request, upstream, lastAuth, viaProxy>>
    /\ UNCHANGED <<pollVars, renderVars, widgetVars>>

Dispatched(action) ==
    /\ Pending
    /\ Get(request).method # "OPTIONS"
    /\ IF action \in {"login", "getConsumption", "logout"}
       THEN ActionOf(Get(request)) = action
       ELSE ActionOf(Get(request)) \notin {"login", "getConsumption", "logout"}

\* variant: a login without a key empties the session
handleLogin_EmptyKeyClears ==
    /\ Dispatched("login")
    /\ LET apiKey == LoginKeyOf(Get(request))
       IN  IF empty(apiKey)
           THEN /\ response' = Some(error(Message("API Key required. Get one from https://api-portal.wienerstadtwerke.at"), 400))
                /\ session' = NoSession
                /\ lastAuth' = "emptyLogin"
           ELSE /\ session' = [wstw_api_key |-> Some(apiKey), wstw_logged_in |-> TRUE]
                /\ response' = Some(success([NoSuccessData EXCEPT !.message = "API Key configured"]))
                /\ lastAuth' = "login"
    /\ UNCHANGED <<cookieFile, request, upstream, viaProxy>>
    /\ UNCHANGED <<pollVars, renderVars, widgetVars>>

handleLogin ==
    /\ Dispatched("login")
    /\ LET apiKey == LoginKeyOf(Get(request))
       IN  IF empty(apiKey)
           THEN /\ response' = Some(error(Message("API Key required. Get one from https://api-portal.wienerstadtwerke.at"), 400))
                /\ session' = session
                /\ lastAuth' = "emptyLogin"
           ELSE /\ session' = [wstw_api_key |-> Some(apiKey), wstw_logged_in |-> TRUE]
                /\ response' = Some(success([NoSuccessData EXCEPT !.message = "API Key configured"]))
                /\ lastAuth' = "login"
    /\ UNCHANGED <<cookieFile, request, upstream, viaProxy>>
    /\ UNCHANGED <<pollVars, renderVars, widgetVars>>

getConsumption ==
    /\ Dispatched("getConsumption")
    /\ LET apiKey == ConsumptionKeyOf(Get(request))
           meterId == MeterIdOf(Get(request))
           period == PeriodOf(Get(request))
           rejected == RejectRequest(apiKey, meterId)
       IN  IF Has(rejected)
           THEN /\ response' = rejected
                /\ upstream' = upstream
           ELSE \E reply \in UpstreamReplies :
                    /\ upstream' = Some(UpstreamCall(apiKey, meterId, period, reply))
                    /\ response' = Some(RelayReply(reply))
    /\ UNCHANGED <<session, cookieFile, request, lastAuth, viaProxy>>
    /\ UNCHANGED <<pollVars, renderVars, widgetVars>>

handleLogout ==
    /\ Dispatched("logout")
    /\ cookieFile' = FALSE
    /\ session' = NoSession
    /\ response' = Some(success([NoSuccessData EXCEPT !.message = "Logged out successfully"]))
    /\ lastAuth' = "logout"
    /\ UNCHANGED <<request, upstream, viaProxy>>
    /\ UNCHANGED <<pollVars, renderVars, widgetVars>>

\* variant: an action the switch does not know is handed to the upstream
InvalidAction_AsksUpstream ==
    /\ Dispatched("")
    /\ \E reply \in UpstreamReplies :
            /\ upstream' = Some(UpstreamCall(ConsumptionKeyOf(Get(request)),
                                             MeterIdOf(Get(request)),
                                             PeriodOf(Get(request)), reply))
            /\ response' = Some(RelayReply(reply))
    /\ UNCHANGED <<session, cookieFile, request, lastAuth, viaProxy>>
    /\ UNCHANGED <<pollVars, renderVars, widgetVars>>

\* default: return error('Invalid action')
InvalidAction ==
    /\ Dispatched("")
    /\ response' = Some(error(Message("Invalid action"), 400))
    /\ UNCHANGED <<session, cookieFile, request, upstream, lastAuth, viaProxy>>
    /\ UNCHANGED <<pollVars, renderVars, widgetVars>>

\* the session a request arrives in: a fresh one, or one a login has filled
Sessions == {NoSession, [wstw_api_key |-> Some("secret"), wstw_logged_in |-> TRUE]}

InitRelay ==
    /\ PollInit
    /\ RenderIdle
    /\ WidgetIdle
    /\ session \in Sessions
    /\ cookieFile \in BOOLEAN
    /\ request \in {Some(req) : req \in Requests}
    /\ upstream = Absent
    /\ response = Absent
    /\ lastAuth = IF Has(session.wstw_api_key) THEN "login" ELSE "none"
    /\ viaProxy = "idle"

NextRelay ==
    \/ Preflight
    \/ handleLogin
    \/ getConsumption
    \/ handleLogout
    \/ InvalidAction

SpecRelay == InitRelay /\ [][NextRelay]_vars

----------------------------------------------------------------------------
(* Claims about the relay *)

\* a getConsumption request the script has answered
AnsweredGetConsumption ==
    /\ Has(request)
    /\ Has(response)
    /\ Get(request).method # "OPTIONS"
    /\ ActionOf(Get(request)) = "getConsumption"

\* the meter identifier is in neither the form nor the query string, or the
\* one the relay reads is the empty string
MeterMissingOrEmpty(req) ==
    \/ ~Has(req.post.meterId) /\ ~Has(req.get.meterId)
    \/ MeterIdOf(req) = ""

\* the key is in neither key field of the form, or the one the relay reads
\* is the empty string
KeyMissingOrEmpty(req) ==
    \/ ~Has(req.post.password) /\ ~Has(req.post.apiKey)
    \/ ConsumptionKeyOf(req) = ""

\* a failure result with the given status
FailsWith(res, status) ==
    /\ Has(res.body)
    /\ Get(res.body).success = FALSE
    /\ res.status = status

\* C7 as stated: every getConsumption request whose meter identifier is
\* missing or empty is answered with success=false and status 400.
C7_MissingMeterIs400 ==
    AnsweredGetConsumption /\ MeterMissingOrEmpty(Get(request))
        => FailsWith(Get(response), 400)

\* C7 amended: every getConsumption request that carries a key the relay
\* accepts as non-empty and whose meter identifier is missing or empty is
\* answered with success=false and status 400.
C7_MissingMeterWithKeyIs400 ==
    (/\ AnsweredGetConsumption
     /\ ~empty(ConsumptionKeyOf(Get(request)))
     /\ MeterMissingOrEmpty(Get(request)))
        => FailsWith(Get(response), 400) /\ ~Has(upstream)

\* a keyed request whose empty form meterId shadows a meterId of the query
\* string has been answered 400
C7_Witness ==
    /\ AnsweredGetConsumption
    /\ ConsumptionKeyOf(Get(request)) = "secret"
    /\ Get(request).post.meterId = Some("")
    /\ Get(request).get.meterId = Some("AT002")
    /\ Get(response).status = 400

\* C8: every getConsumption request whose key is missing or empty is answered
\* with success=false and status 401, whatever its other fields are.
C8_MissingKeyIs401 ==
    AnsweredGetConsumption /\ KeyMissingOrEmpty(Get(request))
        => FailsWith(Get(response), 401) /\ ~Has(upstream)

\* a request with an empty password field, a key in apiKey and no meter has
\* been answered 401
C8_Witness ==
    /\ AnsweredGetConsumption
    /\ Get(request).post.password = Some("")
    /\ Get(request).post.apiKey = Some("secret")
    /\ MeterMissingOrEmpty(Get(request))
    /\ Get(response).status = 401

\* the error text of a failure result
ErrorIs(res, text) ==
    /\ Has(res.body)
    /\ Get(res.body).success = FALSE
    /\ Get(res.body).error.text = text

\* C9: for a validated request without a transport error the relay's result
\* follows the upstream status: 200 with parseable JSON gives success=true with a
\* consumption total, 200 with an unparseable body an 'Invalid JSON response'
\* error, 401 an 'Unauthorized' error, 404 a 'not found' error, and any other
\* status an 'API error' result carrying at most the first 200 characters of
\* the upstream body.
C9_ResultFollowsUpstreamStatus ==
    Has(response) /\ Has(upstream) /\ Get(upstream).reply.curlError = "" =>
        LET res == Get(response)
            reply == Get(upstream).reply
        IN  IF reply.httpCode = 200 /\ Has(reply.json)
            THEN /\ Has(res.body)
                 /\ Get(res.body).success = TRUE
                 /\ Get(res.body).data.weeklyConsumption \in Int
            ELSE IF reply.httpCode = 200
            THEN ErrorIs(res, "Invalid JSON response")
            ELSE IF reply.httpCode = 401
            THEN ErrorIs(res, "Unauthorized: Invalid API Key")
            ELSE IF reply.httpCode = 404
            THEN ErrorIs(res, "Zaehlpunkt nicht gefunden")
            ELSE /\ ErrorIs(res, "API error: HTTP")
                 /\ Len(Get(res.body).error.excerpt) <= ExcerptLen
                 /\ Get(res.body).error.excerpt
                        = SubSeq(reply.body, 1, Len(Get(res.body).error.excerpt))

\* C10: every response to a request for an action is a JSON object with a
\* boolean success member, and every failure has a status among 400, 401, 404
\* and 500, for every action and every upstream outcome.
C10_JsonWithKnownFailureStatus ==
    Has(request) /\ Has(response) /\ Get(request).method # "OPTIONS" =>
        /\ Has(Get(response).body)
        /\ Get(Get(response).body).success \in BOOLEAN
        /\ ~Get(Get(response).body).success
                => Get(response).status \in {400, 401, 404, 500}

\* a 200 answer with a payload has been relayed
RelayedPayload ==
    /\ Has(response)
    /\ Has(upstream)
    /\ Get(upstream).reply.curlError = ""
    /\ Get(upstream).reply.httpCode = 200
    /\ Has(Get(upstream).reply.json)

\* what a reading contributes under a schema: its primary field, else its
\* alternate field, else 0
Contribution(reading, primary, alternate) ==
    IF Has(reading[primary]) THEN Get(reading[primary])
    ELSE IF Has(reading[alternate]) THEN Get(reading[alternate])
    ELSE 0

\* the sum of a list of readings under a schema, reading by reading from the end
RECURSIVE ListSum(_, _, _)
ListSum(list, primary, alternate) ==
    IF Len(list) = 0 THEN 0
    ELSE ListSum(SubSeq(list, 1, Len(list) - 1), primary, alternate)
            + Contribution(list[Len(list)], primary, alternate)

\* the arithmetic sum of the first list present, in the order values,
\* messwerte, data; 0 when none is present
SumOfFirstList(payload) ==
    IF Has(payload.values) THEN ListSum(Get(payload.values), "value", "wert")
    ELSE IF Has(payload.messwerte) THEN ListSum(Get(payload.messwerte), "wert", "value")
    ELSE IF Has(payload.data) THEN ListSum(Get(payload.data), "consumption", "verbrauch")
    ELSE 0

\* C11 as stated: for an upstream 200 payload the reported total equals the
\* arithmetic sum of the readings of the first list present (values, else
\* messwerte, else data), each reading contributing its primary field, else its
\* alternate field, else 0; no list gives 0; only the first list present is
\* summed, even if it is empty.
C11_TotalIsSumOfFirstList ==
    RelayedPayload =>
        /\ Has(Get(response).body)
        /\ Get(Get(response).body).success
        /\ Get(Get(response).body).data.weeklyConsumption
                = SumOfFirstList(Get(Get(upstream).reply.json))

\* C11 amended: the reported total equals that sum rounded to two decimal
\* places (here: thousandths of a kWh rounded to a multiple of ten), so it is
\* within half a hundredth of the sum and equals it when the sum has at most
\* two decimals.
C11_TotalIsRoundedSumOfFirstList ==
    RelayedPayload =>
        LET total == Get(Get(response).body).data.weeklyConsumption
            sum == SumOfFirstList(Get(Get(upstream).reply.json))
        IN  /\ Get(Get(response).body).success
            /\ total % 10 = 0
            /\ total - sum \in -4..5
            /\ Get(response).status = 200

\* a payload holding a values list of two readings (one with the alternate
\* field only) next to a messwerte list has been relayed: sum 3.008, total 3.01
C11_Witness ==
    /\ RelayedPayload
    /\ LET payload == Get(Get(upstream).reply.json)
       IN  /\ Has(payload.values)
           /\ Len(Get(payload.values)) = 2
           /\ Has(payload.messwerte)
           /\ SumOfFirstList(payload) = 3008
           /\ Get(Get(response).body).data.weeklyConsumption = 3010

----------------------------------------------------------------------------
(* The metering widget: user actions, timers and callbacks *)

\* a metering poll changes the widget, the requests in flight and the demo timers
RunMeterPoll ==
    LET ms == loadSmartMeterData(MeterState, localStorage', location)
    IN  /\ smartmeter' = ms.smartmeter
        /\ meterFetches' = ms.meterFetches
        /\ demoTimers' = ms.demoTimers
        /\ meterPolls' = meterPolls + 1

\* setInterval(loadSmartMeterData, 1800000) fires
MeterTick ==
    /\ feedTimers.smartmeter > 0
    /\ meterPolls < MaxWidgetPolls
    /\ localStorage' = localStorage
    /\ RunMeterPoll
    /\ UNCHANGED <<location, form, modalActive, hintTimers>>
    /\ lastEvent' = "tick"
    /\ UNCHANGED <<pollVars, renderVars, relayVars, weatherVars, feedTimers>>

\* click on the widget
openConfigModal ==
    /\ initialised
    /\ ~modalActive
    /\ LET credentials == getSmartMeterCredentials(localStorage)
       IN  form' = IF Has(credentials)
                   THEN [form EXCEPT !.username = Get(credentials).username,
                                     !.meterId = Get(credentials).meterId]
                   ELSE form
    /\ modalActive' = TRUE
    /\ UNCHANGED <<location, localStorage, smartmeter, meterFetches, demoTimers,
                   hintTimers, meterPolls>>
    /\ lastEvent' = "open"
    /\ UNCHANGED <<pollVars, renderVars, relayVars, weatherVars, feedTimers>>

\* the user edits the fields of the open form
EditForm(fields) ==
    /\ modalActive
    /\ form # fields
    /\ form' = fields
    /\ UNCHANGED <<location, localStorage, modalActive, smartmeter, meterFetches,
                   demoTimers, hintTimers, meterPolls>>
    /\ lastEvent' = "edit"
    /\ UNCHANGED <<pollVars, renderVars, relayVars, weatherVars, feedTimers>>

\* click on cancel, or on the backdrop of the modal
cancelConfig ==
    /\ modalActive
    /\ modalActive' = FALSE
    /\ UNCHANGED <<location, localStorage, form, smartmeter, meterFetches, demoTimers,
                   hintTimers, meterPolls>>
    /\ lastEvent' = "cancel"
    /\ UNCHANGED <<pollVars, renderVars, relayVars, weatherVars, feedTimers>>

\* click on save: saveSmartMeterConfig()
saveSmartMeterConfig ==
    /\ modalActive
    /\ meterPolls < MaxWidgetPolls
    /\ LET username == trim(form.username)
           password == form.password
           meterId == trim(form.meterId)
       IN  IF username = <<>> \/ password = <<>> \/ ~Has(btoa(password))
           THEN \* the alert, or the exception of btoa, ends the handler
                UNCHANGED <<localStorage, form, modalActive, smartmeter, meterFetches,
                            demoTimers, meterPolls>>
           ELSE /\ localStorage' = Some(JSON_stringify(
                                        Credentials(username, Get(btoa(password)), meterId)))
                /\ modalActive' = FALSE
                /\ form' = [form EXCEPT !.password = <<>>]
                /\ RunMeterPoll
    /\ UNCHANGED <<location, hintTimers>>
    /\ lastEvent' = "save"
    /\ UNCHANGED <<pollVars, renderVars, relayVars, weatherVars, feedTimers>>

\* variant: a confirmed clear closes the modal and polls but keeps the record
clearSmartMeterConfig_KeepsRecord(confirmed) ==
    /\ modalActive
    /\ meterPolls < MaxWidgetPolls
    /\ IF confirmed
       THEN /\ localStorage' = localStorage
            /\ form' = EmptyForm
            /\ modalActive' = FALSE
            /\ RunMeterPoll
       ELSE UNCHANGED <<localStorage, form, modalActive, smartmeter, meterFetches,
                        demoTimers, meterPolls>>
    /\ lastEvent' = IF confirmed THEN "clearConfirmed" ELSE "clearDeclined"
    /\ UNCHANGED <<location, hintTimers>>
    /\ UNCHANGED <<pollVars, renderVars, relayVars, weatherVars, feedTimers>>

\* variant: the answer to confirm() is not looked at
clearSmartMeterConfig_NoConfirm(confirmed) ==
    /\ modalActive
    /\ meterPolls < MaxWidgetPolls
    /\ localStorage' = Absent
    /\ form' = EmptyForm
    /\ modalActive' = FALSE
    /\ RunMeterPoll
    /\ lastEvent' = IF confirmed THEN "clearConfirmed" ELSE "clearDeclined"
    /\ UNCHANGED <<location, hintTimers>>
    /\ UNCHANGED <<pollVars, renderVars, relayVars, weatherVars, feedTimers>>

\* click on clear: clearSmartMeterConfig(), with the answer to confirm()
clearSmartMeterConfig(confirmed) ==
    /\ modalActive
    /\ meterPolls < MaxWidgetPolls
    /\ IF confirmed
       THEN /\ localStorage' = Absent
            /\ form' = EmptyForm
            /\ modalActive' = FALSE
            /\ RunMeterPoll
       ELSE UNCHANGED <<localStorage, form, modalActive, smartmeter, meterFetches,
                        demoTimers, meterPolls>>
    /\ UNCHANGED <<location, hintTimers>>
    /\ lastEvent' = IF confirmed THEN "clearConfirmed" ELSE "clearDeclined"
    /\ UNCHANGED <<pollVars, renderVars, relayVars, weatherVars, feedTimers>>

\* the setTimeout callback of the demo route runs
DemoTimeout ==
    /\ demoTimers > 0
    /\ demoTimers' = demoTimers - 1
    /\ \E amount \in DemoValues : smartmeter' = displaySmartMeterData(DemoData(amount))
    /\ UNCHANGED <<location, localStorage, form, modalActive, meterFetches, hintTimers,
                   meterPolls>>
    /\ lastEvent' = "demo"
    /\ UNCHANGED <<pollVars, renderVars, relayVars, weatherVars, feedTimers>>

\* what the relay request of the widget can come to
MeterData(weeklyConsumption) ==
    [weeklyConsumption |-> weeklyConsumption, period |-> "Diese Woche", unit |-> "kWh"]
MeterReply(kind, status, succeeded, data, errorText) ==
    [kind |-> kind, status |-> status, success |-> succeeded, data |-> data,
     error |-> errorText]
MeterOutcomes ==
    {MeterReply("network", 0, FALSE, Absent, Absent)}
        \cup {MeterReply("status", st, FALSE, Absent, Absent) : st \in {400, 401}}
        \cup {MeterReply(k, 200, FALSE, Absent, Absent) : k \in {"syntax", "null"}}
        \cup {MeterReply("json", 200, TRUE, d, Absent) :
                d \in {Absent, Some(MeterData(3010))}}
        \cup {MeterReply("json", 200, FALSE, Absent, e) :
                e \in {Absent, Some("API Key required"), Some("Login abgelaufen")}}

\* error.message of what the promise chain of fetchSmartMeterAPI rejects with
ErrorMessage(reply) ==
    CASE reply.kind = "network" -> "Failed to fetch"
      [] reply.kind = "status" -> "HTTP " \o ToString(reply.status)
      [] reply.kind = "syntax" -> "SyntaxError"
      [] reply.kind = "null" -> "TypeError"
      [] reply.success -> "TypeError"
      [] OTHER -> IF Has(reply.error) THEN Get(reply.error) ELSE "API Fehler"

\* error.message.includes('401') || error.message.includes('Login'), on the
\* messages of the model
MentionsCredentials(message) == message \in {"HTTP 401", "Login abgelaufen"}

\* the response of relay request i arrives: the then and catch callbacks
MeterResponse(i, reply) ==
    /\ i \in 1..Len(meterFetches)
    /\ meterFetches' = SubSeq(meterFetches, 1, i - 1)
                            \o SubSeq(meterFetches, i + 1, Len(meterFetches))
    /\ IF reply.kind = "json" /\ reply.success /\ Has(reply.data)
       THEN /\ smartmeter' = displaySmartMeterData(Get(reply.data))
            /\ hintTimers' = hintTimers
       ELSE /\ smartmeter' = Smartmeter(FixedValue("Fehler"), ErrorMessage(reply))
            /\ hintTimers' = IF MentionsCredentials(ErrorMessage(reply))
                             THEN hintTimers + 1 ELSE hintTimers
    /\ UNCHANGED <<location, localStorage, form, modalActive, demoTimers, meterPolls>>
    /\ lastEvent' = "response"
    /\ UNCHANGED <<pollVars, renderVars, relayVars, weatherVars, feedTimers>>

\* the setTimeout callback of the credentials hint runs
HintTimeout ==
    /\ hintTimers > 0
    /\ hintTimers' = hintTimers - 1
    /\ smartmeter' = Smartmeter(smartmeter.value, "Zugangsdaten pruefen")
    /\ UNCHANGED <<location, localStorage, form, modalActive, meterFetches, demoTimers,
                   meterPolls>>
    /\ lastEvent' = "hint"
    /\ UNCHANGED <<pollVars, renderVars, relayVars, weatherVars, feedTimers>>

\* what storage holds when the page is opened: nothing, a text that is no
\* JSON, or a record an earlier visit saved
StoredRecords ==
    {Credentials(<<"a">>, Get(btoa(<<"p", "w">>)), m) : m \in {<<>>, <<"A", "T", "1">>}}
InitialStorage ==
    {Absent, Some(NoJson)} \cup {Some(JSON_stringify(c)) : c \in StoredRecords}

InitMeter ==
    /\ PollInit
    /\ RenderIdle
    /\ RelayIdle
    /\ location \in Locations
    /\ localStorage \in InitialStorage
    /\ MeterIdle
    /\ WeatherIdle
    /\ feedTimers = NoFeedTimers

NextMeter ==
    \/ init
    \/ MeterTick
    \/ openConfigModal
    \/ \E fields \in Forms : EditForm(fields)
    \/ cancelConfig
    \/ saveSmartMeterConfig
    \/ \E confirmed \in BOOLEAN : clearSmartMeterConfig(confirmed)
    \/ DemoTimeout
    \/ \E i \in 1..Len(meterFetches), reply \in MeterOutcomes : MeterResponse(i, reply)
    \/ HintTimeout

SpecMeter == InitMeter /\ [][NextMeter]_vars

----------------------------------------------------------------------------
(* Claims about the metering widget *)

\* the step starts a metering poll
MeterPollStarts == meterPolls' = meterPolls + 1

\* C12: a confirmed clear removes the stored record, and the poll it starts
\* sets the widget to the 'not configured' placeholder; every later poll also
\* shows 'not configured' until a save succeeds: while nothing is stored every
\* poll sets the placeholder, and only a save stores a record again.
C12_ClearThenNotConfigured ==
    [][/\ lastEvent' = "clearConfirmed"
            => /\ localStorage' = Absent
               /\ MeterPollStarts
               /\ smartmeter' = NotConfigured
       /\ localStorage = Absent /\ MeterPollStarts /\ lastEvent' # "save"
            => smartmeter' = NotConfigured /\ localStorage' = Absent
       /\ localStorage = Absent /\ localStorage' # Absent => lastEvent' = "save"]_vars

\* a stored record has been cleared while its relay request was in flight, and
\* the widget shows the placeholder
C12_Witness ==
    /\ lastEvent = "clearConfirmed"
    /\ localStorage = Absent
    /\ smartmeter = NotConfigured
    /\ Len(meterFetches) = 1

\* C13: a declined clear changes nothing: the stored record, the form fields,
\* the modal, the widget and the pending requests and timers stay as they are
\* and no metering poll is started.
C13_DeclinedClearChangesNothing ==
    [][lastEvent' = "clearDeclined"
        => UNCHANGED <<localStorage, form, modalActive, smartmeter, meterFetches,
                       demoTimers, hintTimers, meterPolls>>]_vars

\* a clear has been declined with a record stored and the form filled
C13_Witness ==
    /\ lastEvent = "clearDeclined"
    /\ Has(getSmartMeterCredentials(localStorage))
    /\ form.password # <<>>
    /\ modalActive

\* C14: a save with an empty (after trimming) username or an empty password
\* leaves the stored record alone, keeps the modal open and starts no poll; a
\* save with both non-empty stores {username, encoded password, meterId} and
\* starts a metering poll.
C14_SaveRejectsOrStores ==
    [][lastEvent' = "save" =>
        IF trim(form.username) = <<>> \/ form.password = <<>>
        THEN /\ localStorage' = localStorage
             /\ modalActive'
             /\ ~MeterPollStarts
        ELSE /\ Has(getSmartMeterCredentials(localStorage'))
             /\ Get(getSmartMeterCredentials(localStorage')).username = trim(form.username)
             /\ Get(getSmartMeterCredentials(localStorage')).meterId = trim(form.meterId)
             /\ atob(Get(getSmartMeterCredentials(localStorage')).password)
                    = Some(form.password)
             /\ MeterPollStarts]_vars

\* C15: a metering poll that finds no stored credentials shows the 'not
\* configured' placeholder and stops: no relay request, no demo sample.
C15_NoCredentialsNoRequest ==
    [][MeterPollStarts /\ ~Has(getSmartMeterCredentials(localStorage'))
        => /\ smartmeter' = NotConfigured
           /\ meterFetches' = meterFetches
           /\ demoTimers' = demoTimers]_vars

\* a poll has found a stored text that is no JSON and shown the placeholder
C15_Witness ==
    /\ localStorage = Some(NoJson)
    /\ meterPolls > 0
    /\ smartmeter = NotConfigured
    /\ meterFetches = <<>>
    /\ demoTimers = 0

\* the two routes of a poll that finds credentials, for a given notion of a
\* non-served page
TakesOneRoute(nonServed) ==
    LET credentials == Get(getSmartMeterCredentials(localStorage'))
    IN  IF nonServed
        THEN /\ demoTimers' = demoTimers + 1
             /\ meterFetches' = meterFetches
        ELSE /\ demoTimers' = demoTimers
             /\ Len(meterFetches') = Len(meterFetches) + 1
             /\ SubSeq(meterFetches', 1, Len(meterFetches)) = meterFetches
             /\ LET sent == meterFetches'[Len(meterFetches')]
                IN  /\ sent.action = "getConsumption"
                    /\ Some(sent.password) = atob(credentials.password)
                    /\ sent.meterId = credentials.meterId

\* C16 as stated: a poll that finds credentials schedules one demo sample and
\* sends nothing on a non-served page (file protocol, empty host, localhost or
\* 127.0.0.1), and on every other page sends one getConsumption POST with the
\* decoded secret and the stored meter identifier and schedules no demo sample.
C16_RouteByListedHosts ==
    [][MeterPollStarts /\ Has(getSmartMeterCredentials(localStorage'))
        => TakesOneRoute(\/ location.protocol = "file:"
                         \/ location.hostname = <<>>
                         \/ location.hostname = <<"l", "o", "c", "a", "l", "h", "o", "s", "t">>
                         \/ location.hostname = Host127001)]_vars

\* C16 amended: the non-served pages are those of the file protocol, of an
\* empty host, of localhost and of every host name that begins with 127.0.0.1.
C16_RouteByHostPrefix ==
    [][MeterPollStarts /\ Has(getSmartMeterCredentials(localStorage'))
        => TakesOneRoute(\/ location.protocol = "file:"
                         \/ location.hostname = <<>>
                         \/ location.hostname = <<"l", "o", "c", "a", "l", "h", "o", "s", "t">>
                         \/ startsWith(location.hostname, Host127001))]_vars

\* on host 127.0.0.10 a poll with credentials has scheduled the demo sample
\* and sent nothing
C16_Witness ==
    /\ location.hostname = Host127001 \o <<"0">>
    /\ Has(getSmartMeterCredentials(localStorage))
    /\ meterPolls = 1
    /\ demoTimers = 1
    /\ meterFetches = <<>>
    /\ smartmeter.period = "Lade..."

----------------------------------------------------------------------------
(* Further claims about the departure poller *)

\* the position, in stop order, of the first fetch of a cycle that succeeded
FirstSuccess(done) ==
    CHOOSE j \in 1..Len(done.fetched) :
        done.fetched[j].ok /\ \A i \in 1..(j - 1) : ~done.fetched[i].ok

\* the titles of the notices a body carries, in order
NoticeTitles(body) ==
    LET infos == TrafficInfosOf(body)
    IN  [i \in 1..Len(infos) |-> infos[i].title]

\* C17: after a successful departure cycle the traffic notices shown are
\* exactly those of the first successful response in stop order, never those
\* of a later stop and never the merged list.
C17_NoticesOfFirstSuccess ==
    [][lastDone' # lastDone /\ lastDone'.path = "rendered" =>
        LET titles == NoticeTitles(lastDone'.fetched[FirstSuccess(lastDone')].body)
        IN  /\ Len(trafficContainer') = Len(titles)
            /\ \A i \in 1..Len(titles) :
                    Some(trafficContainer'[i].title) = titles[i]]_vars

\* a cycle whose two stops both answered with a notice has completed, and the
\* one notice shown is that of the first stop
C17_Witness ==
    /\ lastDone.path = "rendered"
    /\ Len(lastDone.fetched) = 2
    /\ \A j \in 1..2 : lastDone.fetched[j].ok
                        /\ Len(TrafficInfosOf(lastDone.fetched[j].body)) = 1
    /\ Len(trafficContainer) = 1
    /\ trafficContainer[1].title = lastDone.rbls[1]

----------------------------------------------------------------------------
(* The weather widget: its timer and the settling of its fetches *)

\* setInterval(loadWeather, 600000) fires: loadWeather starts one fetch
WeatherTick ==
    /\ feedTimers.weather > 0
    /\ weatherPolls < MaxWidgetPolls
    /\ weatherFetches' = weatherFetches + 1
    /\ weatherPolls' = weatherPolls + 1
    /\ UNCHANGED <<weather, weatherDone, feedTimers>>
    /\ UNCHANGED <<pollVars, renderVars, relayVars, meterVars>>

\* a fetch of loadWeather settles as outcome and its callbacks run
WeatherSettles(outcome) ==
    /\ weatherFetches > 0
    /\ weatherFetches' = weatherFetches - 1
    /\ weather' = WeatherCallbacks(weather, outcome)
    /\ weatherDone' = Some(outcome)
    /\ UNCHANGED <<weatherPolls, feedTimers>>
    /\ UNCHANGED <<pollVars, renderVars, relayVars, meterVars>>

InitWeather ==
    /\ PollInit
    /\ RenderIdle
    /\ RelayIdle
    /\ WidgetIdle

NextWeather ==
    \/ init
    \/ WeatherTick
    \/ \E outcome \in WeatherOutcomes : WeatherSettles(outcome)

SpecWeather == InitWeather /\ [][NextWeather]_vars

----------------------------------------------------------------------------
(* Claims about the weather widget *)

\* a weather poll that ended in an error: the request failed, the status was
\* not OK, the body was no JSON, or the body had no current-conditions block
WeatherError(outcome) ==
    \/ outcome.network
    \/ ~outcome.ok
    \/ ~outcome.parses
    \/ outcome.isNull
    \/ ~Has(outcome.current)

\* C18: when a weather poll completes with any error (network failure, non-OK
\* status, unparseable body, or a body without a current-conditions block) the
\* weather description shows the static 'unavailable' message.
C18_AnyErrorShowsUnavailable ==
    [][weatherFetches' < weatherFetches /\ WeatherError(Get(weatherDone')) =>
        weather'.desc = Unavailable]_vars

\* the errors the catch callback of loadWeather sees: a failed request, a
\* body that is no JSON and a null body end in the 'unavailable' message
ThrownWeatherError(outcome) == outcome.network \/ ~outcome.parses \/ outcome.isNull
ThrownWeatherErrorShowsUnavailable ==
    [][(weatherFetches' < weatherFetches /\ ThrownWeatherError(Get(weatherDone'))) =>
        weather'.desc = Unavailable]_vars

----------------------------------------------------------------------------
(* Progress of the departure poller *)

\* cycle n is in flight
InFlight(n) == \E i \in 1..Len(polls) : polls[i].id = n

\* the contents a completed cycle leaves in the table
SettledKinds == {"rows", "noStation", "noSoon", "fallback"}

\* C19: every started departure cycle completes once its fetches have settled,
\* its completion leaves rendered rows, an empty-result message or the
\* fallback table, whatever was raised while fetching, parsing or rendering;
\* and when no cycle is in flight the table does not show the loading row.
C19_EveryCycleLeavesLoading ==
    /\ \A n \in 1..MaxCycles : InFlight(n) ~> (lastDone.id = n /\ ~InFlight(n))
    /\ [][lastDone' # lastDone =>
            /\ tbody'.kind \in SettledKinds
            /\ tbody'.kind = "rows" => Len(tbody'.rows) > 0]_vars
    /\ [](polls = <<>> => tbody.kind # "loading")

\* every cycle has completed, the last one on an error raised while rendering
\* a response that was fetched and parsed: the fallback table is shown
C19_Witness ==
    /\ initialised
    /\ polls = <<>>
    /\ lastDone.path = "failed"
    /\ ~AllFetchesFailed(lastDone)
    /\ tbody = FallbackTable

----------------------------------------------------------------------------
(* Timers and first loads of the page *)

\* the refresh timers armed for the departure feed
DepartureTimers == {k \in Modules : refreshTimer[k]}

\* C20: initialization arms exactly one repeating timer per feed (departures,
\* weather, metering) and the first load starts exactly one cycle per feed.
C20_OneTimerAndOneCyclePerFeed ==
    [][(~initialised /\ initialised') =>
        /\ Cardinality(DepartureTimers') = 1
        /\ feedTimers' = [weather |-> 1, smartmeter |-> 1]
        /\ started' = started + 1
        /\ Len(polls') = Len(polls) + 1
        /\ weatherPolls' = weatherPolls + 1
        /\ meterPolls' = meterPolls + 1]_vars

\* the part of C20 the code keeps: one timer and one first load for the
\* weather feed and for the metering feed
OneTimerAndOneLoadPerWidget ==
    [][(~initialised /\ initialised') =>
        /\ feedTimers' = [weather |-> 1, smartmeter |-> 1]
        /\ weatherPolls' = weatherPolls + 1
        /\ meterPolls' = meterPolls + 1]_vars

----------------------------------------------------------------------------
(* The relay over the requests of one session, and the client chain of
   js/smartmeter-integration.js that logs in before it asks for the total *)

\* the requests a client sends within one session: logins with and without a
\* key, logouts, consumption requests with the key in the form and without,
\* the preflight and an unknown action
SessionRequests ==
    {Request("POST", Fields(Some("login"), k1, k2, Absent, Absent), NoFields) :
        k1 \in FieldValues \cup {Some("other")}, k2 \in {Absent, Some("secret")}}
    \cup {Request("POST", Fields(Some("logout"), Absent, Absent, Absent, Absent), NoFields),
          Request("GET", NoFields, Fields(Some("logout"), Absent, Absent, Absent, Absent))}
    \cup {Request("POST", Fields(Some("getConsumption"), Absent, k, Some("AT001"), Absent),
                  NoFields) : k \in {Absent, Some("secret")}}
    \cup {Request("GET", NoFields,
                  Fields(Some("getConsumption"), Absent, Absent, Some("AT001"), Some("week"))),
          Request("POST", Fields(Some("export"), Absent, Some("secret"), Absent, Absent),
                  NoFields),
          Request("OPTIONS", NoFields, NoFields)}

\* the next request of the session reaches the script once the one before it
\* has been answered
Arrive(req) ==
    /\ ~Pending
    /\ viaProxy \notin {"login", "consumption"}
    /\ request' = Some(req)
    /\ response' = Absent
    /\ upstream' = Absent
    /\ UNCHANGED <<session, cookieFile, lastAuth, viaProxy>>
    /\ UNCHANGED <<pollVars, renderVars, widgetVars>>

RECURSIVE Join(_)
\* the string of a text of the page, as a form field carries it
Join(text) == IF text = <<>> THEN "" ELSE Head(text) \o Join(Tail(text))

\* error.message of new Error(result.error || fallback) for a relay answer
ErrorText(message, fallback) ==
    IF message.text = "" THEN fallback
    ELSE IF message.code = 0 THEN message.text
    ELSE message.text \o " " \o ToString(message.code)

\* the catch callback of fetchSmartMeterViaProxy
ViaProxyFailed(text) == Smartmeter(FixedValue("Fehler"), text)

\* fetchSmartMeterViaProxy(credentials): the login request is sent
ViaProxyLogin(credentials) ==
    /\ ~Pending
    /\ viaProxy \notin {"login", "consumption"}
    /\ Has(atob(credentials.password))
    /\ request' = Some(Request("POST",
                               Fields(Some("login"), Absent,
                                      Some(Join(Get(atob(credentials.password)))),
                                      Absent, Absent),
                               NoFields))
    /\ response' = Absent
    /\ upstream' = Absent
    /\ viaProxy' = "login"
    /\ localStorage' = Some(JSON_stringify(credentials))
    /\ UNCHANGED <<session, cookieFile, lastAuth>>
    /\ UNCHANGED <<location, form, modalActive, smartmeter, meterFetches, demoTimers,
                   hintTimers, meterPolls, lastEvent>>
    /\ UNCHANGED <<pollVars, renderVars, weatherVars, feedTimers>>

\* the answer to the login arrives: on success the chain sends the GET for
\* the total, else it throws into its catch callback
ViaProxyLoginResult ==
    /\ viaProxy = "login"
    /\ Has(response)
    /\ LET body == Get(response).body
           credentials == Get(getSmartMeterCredentials(localStorage))
       IN  IF Has(body) /\ Get(body).success
           THEN /\ request' = Some(Request("GET", NoFields,
                                           Fields(Some("getConsumption"), Absent, Absent,
                                                  Some(Join(credentials.meterId)),
                                                  Some("week"))))
                /\ response' = Absent
                /\ upstream' = Absent
                /\ viaProxy' = "consumption"
                /\ smartmeter' = smartmeter
           ELSE /\ smartmeter' = ViaProxyFailed(IF Has(body)
                                                THEN ErrorText(Get(body).error, "Login failed")
                                                ELSE "SyntaxError")
                /\ viaProxy' = "failed"
                /\ UNCHANGED <<request, response, upstream>>
    /\ UNCHANGED <<session, cookieFile, lastAuth>>
    /\ UNCHANGED <<location, localStorage, form, modalActive, meterFetches, demoTimers,
                   hintTimers, meterPolls, lastEvent>>
    /\ UNCHANGED <<pollVars, renderVars, weatherVars, feedTimers>>

\* the answer to the GET arrives: the total is shown, or the catch callback runs
ViaProxyResult ==
    /\ viaProxy = "consumption"
    /\ Has(response)
    /\ LET body == Get(response).body
       IN  IF Has(body) /\ Get(body).success
           THEN /\ smartmeter' = displaySmartMeterData(
                                    [weeklyConsumption |-> Get(body).data.weeklyConsumption,
                                     period |-> Get(body).data.period,
                                     unit |-> Get(body).data.unit])
                /\ viaProxy' = "shown"
           ELSE /\ smartmeter' = ViaProxyFailed(
                                    IF Has(body)
                                    THEN ErrorText(Get(body).error,
                                                   "Failed to fetch consumption data")
                                    ELSE "SyntaxError")
                /\ viaProxy' = "failed"
    /\ UNCHANGED <<session, cookieFile, request, upstream, response, lastAuth>>
    /\ UNCHANGED <<location, localStorage, form, modalActive, meterFetches, demoTimers,
                   hintTimers, meterPolls, lastEvent>>
    /\ UNCHANGED <<pollVars, renderVars, weatherVars, feedTimers>>

\* a fresh session; a temp cookie file of its id may lie around
InitSession ==
    /\ PollInit
    /\ RenderIdle
    /\ WidgetIdle
    /\ session = NoSession
    /\ cookieFile \in BOOLEAN
    /\ request = Absent
    /\ upstream = Absent
    /\ response = Absent
    /\ lastAuth = "none"
    /\ viaProxy = "idle"

NextSession ==
    \/ \E req \in SessionRequests : Arrive(req)
    \/ Preflight
    \/ handleLogin
    \/ getConsumption
    \/ handleLogout
    \/ InvalidAction
    \/ \E credentials \in StoredRecords : ViaProxyLogin(credentials)
    \/ ViaProxyLoginResult
    \/ ViaProxyResult

SpecSession == InitSession /\ [][NextSession]_vars

----------------------------------------------------------------------------
(* Claims about the session of the relay *)

HoldsKey == Has(session.wstw_api_key)

\* the steps that answer a login, and those that answer a logout
LoginStep == ~Has(response) /\ Has(response') /\ ActionOf(Get(request)) = "login"
                /\ Get(request).method # "OPTIONS"
LogoutStep == ~Has(response) /\ Has(response') /\ ActionOf(Get(request)) = "logout"
                /\ Get(request).method # "OPTIONS"

\* C21 as stated: the session holds a key exactly when the login or logout
\* request handled last was a login with a non-empty key.
C21_KeyIffLastAuthWasKeyedLogin ==
    HoldsKey <=> lastAuth = "login"

\* C21: a login with a non-empty key stores that key and succeeds; a login
\* with an empty key fails with an error and leaves the session unchanged; a
\* logout empties the session and removes the temp cookie file; no other step
\* touches the session. So the session holds a key exactly when, of the
\* logouts and the logins with a non-empty key, the one handled last was a login.
C21_KeyIffLastKeyedLoginOrLogout ==
    [][/\ (LoginStep /\ ~empty(LoginKeyOf(Get(request)))) =>
            /\ session' = [wstw_api_key |-> Some(LoginKeyOf(Get(request))),
                           wstw_logged_in |-> TRUE]
            /\ Get(response').status = 200 /\ Get(Get(response').body).success
            /\ cookieFile' = cookieFile
       /\ (LoginStep /\ empty(LoginKeyOf(Get(request)))) =>
            /\ session' = session
            /\ Get(response').status = 400 /\ ~Get(Get(response').body).success
            /\ cookieFile' = cookieFile
       /\ LogoutStep =>
            /\ session' = NoSession
            /\ ~cookieFile'
            /\ Get(Get(response').body).success
       /\ (~LoginStep /\ ~LogoutStep) => (session' = session /\ cookieFile' = cookieFile)]_vars

\* a session that holds a key after a login with an empty key was refused: the
\* key of the login before it is kept
C21_Witness ==
    /\ HoldsKey
    /\ lastAuth = "emptyLogin"
    /\ Has(response) /\ Get(response).status = 400

----------------------------------------------------------------------------
(* Further claims about the relay *)

\* the period field as the request carries it: the form field, else the query field
PeriodField(req) == IF Has(req.post.period) THEN req.post.period ELSE req.get.period

\* C22: the window the relay asks the upstream for ends today and starts 1 day
\* (day), 7 days (week), 30 days (month) or 1 year (year) earlier; a missing
\* period counts as week, and an unrecognized keyword gives a window whose
\* start equals its end.
C22_WindowByPeriod ==
    Has(upstream) =>
        LET field == PeriodField(Get(request))
            window == Get(upstream).window
        IN  /\ ~Has(field) => window = [years |-> 0, days |-> 7]
            /\ field = Some("day") => window = [years |-> 0, days |-> 1]
            /\ field = Some("week") => window = [years |-> 0, days |-> 7]
            /\ field = Some("month") => window = [years |-> 0, days |-> 30]
            /\ field = Some("year") => window = [years |-> 1, days |-> 0]
            /\ (Has(field) /\ Get(field) \notin {"day", "week", "month", "year"}) =>
                    window = [years |-> 0, days |-> 0]

\* the upstream was asked with a keyword the switch does not know: the window
\* starts where it ends
C22_Witness ==
    /\ Has(upstream)
    /\ PeriodField(Get(request)) = Some("decade")
    /\ Get(upstream).window = [years |-> 0, days |-> 0]

----------------------------------------------------------------------------
(* Further claims about the rendering of departures *)

\* the rows displayDepartures left in the table
RenderedRows == IF Has(renderOut) THEN Get(renderOut).tbody.rows ELSE <<>>

\* C23: a departure row shows 'JETZT' with the highlight class exactly when
\* its countdown is 0, '1 min' for 1 and '<n> min' for every countdown above 1.
C23_CountdownText ==
    \A i \in 1..Len(RenderedRows) :
        LET row == RenderedRows[i]
        IN  /\ row.now <=> row.countdown = 0
            /\ row.text = "JETZT" <=> row.countdown = 0
            /\ row.countdown = 1 => row.text = "1 min"
            /\ row.countdown > 1 => row.text = ToString(row.countdown) \o " min"

\* a table with a row that is due now, a row one minute away and a later row
C23_Witness ==
    /\ \E i \in 1..Len(RenderedRows) : RenderedRows[i].countdown = 0 /\ RenderedRows[i].now
    /\ \E i \in 1..Len(RenderedRows) : RenderedRows[i].text = "1 min"
    /\ \E i \in 1..Len(RenderedRows) : RenderedRows[i].text = "2 min"

----------------------------------------------------------------------------
(* Further claims about the weather widget *)

\* the weather code of the forecast displayed last, if that poll displayed one
DisplayedCode ==
    IF Has(weatherDone) /\ ~WeatherError(Get(weatherDone))
    THEN Get(Get(weatherDone).current).weather_code
    ELSE Absent

\* C24: a displayed forecast with code 0 shows the clear-sky icon and text, one
\* with a code of the table shows the entry of that code, and one with any
\* other code shows the fallback icon and 'Unbekannt'.
C24_LookupByCode ==
    [][(weatherFetches' < weatherFetches /\ ~WeatherError(Get(weatherDone'))) =>
        LET code == DisplayedCode'
            shown == WeatherInfo(weather'.icon, weather'.desc)
        IN  /\ code = Some(0) => shown = WeatherInfo("sun", "Klar")
            /\ (Has(code) /\ Get(code) \in WeatherCodes) => shown = weatherMap(Get(code))
            /\ (Has(code) /\ Get(code) \notin WeatherCodes) =>
                    shown = WeatherInfo("thermometer", "Unbekannt")]_vars

\* a forecast with a code outside the table is on display: the fallback icon
\* and 'Unbekannt' are shown
C24_Witness ==
    /\ DisplayedCode = Some(100)
    /\ weather.icon = "thermometer"
    /\ weather.desc = "Unbekannt"

----------------------------------------------------------------------------
(* Claims about the chain that logs in first *)

\* C25: once the login of fetchSmartMeterViaProxy has succeeded, the relay
\* accepts the request for the total that follows in the same session and
\* calls the upstream with the key stored at login.
C25_ViaProxyUsesStoredKey ==
    (viaProxy = "consumption" /\ Has(response)) =>
        /\ Has(upstream)
        /\ Some(Get(upstream).xApiKey) = session.wstw_api_key

\* what the code does instead: the chain never gets to show a total
ViaProxyNeverShowsTotal == viaProxy # "shown"

\* the part the code keeps: the login of the chain stores the decoded password
\* as the key of the session
ViaProxyLoginStoresKey ==
    (viaProxy = "consumption") => session.wstw_api_key = Some("pw")

----------------------------------------------------------------------------
(* Claims about a change of the stop list *)

\* the line names the feed of the model answers with for the stops rbls
LinesOfStops(rbls) == {LineName(rbls[j], 1, 1) : j \in 1..Len(rbls)}

\* C26: once every departure cycle in flight has completed, the rows of the
\* table are departures of the stop list selected now, never of a list
\* selected before.
C26_RowsOfCurrentStops ==
    (initialised /\ polls = <<>> /\ tbody.kind = "rows") =>
        \A k \in Modules : \A i \in 1..Len(tbody.rows) :
            tbody.rows[i].line \in LinesOfStops(currentRBLs[k])

\* without a change of the stop list in between the rows are those of the
\* stops of the cycle that completed last
RowsOfLastCompletedCycle ==
    (initialised /\ polls = <<>> /\ tbody.kind = "rows") =>
        \A i \in 1..Len(tbody.rows) : tbody.rows[i].line \in LinesOfStops(lastDone.rbls)

----------------------------------------------------------------------------
(* Claims about stale callbacks of the metering widget *)

\* no callback of a metering poll is pending
MeterQuiet == meterFetches = <<>> /\ demoTimers = 0 /\ hintTimers = 0

\* the widget shows an amount: a consumption total or a demo sample
ShowsAmount == Has(smartmeter.value.amount)

\* the first half of C27: once the pending callbacks have run, no amount is
\* on display while no credentials are stored
NoAmountWithoutCredentials ==
    (initialised /\ MeterQuiet /\ ~Has(getSmartMeterCredentials(localStorage))) =>
        ~ShowsAmount

\* the second half of C27: an amount on display is never under the 'check
\* credentials' label
AmountNeverUnderHint == ~(ShowsAmount /\ smartmeter.period = "Zugangsdaten pruefen")

\* C27: once the pending callbacks have run, the widget shows no consumption
\* value and no demo sample while no credentials are stored; and a value on
\* display is never paired with the 'check credentials' label a callback of an
\* earlier poll wrote.
C27_WidgetFollowsCredentials == NoAmountWithoutCredentials /\ AmountNeverUnderHint

----------------------------------------------------------------------------
(* Claims about the calls to the upstream *)

KnownActions == {"login", "getConsumption", "logout"}

\* the upstream is called only for a getConsumption request with a non-empty
\* key and a non-empty meter identifier
UpstreamOnlyForConsumption ==
    Has(upstream) =>
        /\ Get(request).method # "OPTIONS"
        /\ ActionOf(Get(request)) = "getConsumption"
        /\ ~KeyMissingOrEmpty(Get(request))
        /\ ~MeterMissingOrEmpty(Get(request))
        /\ Get(upstream).xApiKey = ConsumptionKeyOf(Get(request))
        /\ Get(upstream).meterId = MeterIdOf(Get(request))

\* a getConsumption request answered with one of the two rejections
RejectedConsumption ==
    /\ AnsweredGetConsumption
    /\ \/ ErrorIs(Get(response), "API Key required")
       \/ ErrorIs(Get(response), "Zaehlpunktnummer (meterId) is required")

\* C28 as stated: the upstream is called only for a getConsumption request
\* with a non-empty key and meter identifier; a login, a logout and a rejected
\* getConsumption make no upstream call, and every request with an unknown or
\* missing action is answered 400 'Invalid action' without an upstream call.
C28_UpstreamOnlyForConsumption ==
    /\ UpstreamOnlyForConsumption
    /\ RejectedConsumption => ~Has(upstream)
    /\ (Has(response) /\ ActionOf(Get(request)) \notin KnownActions) =>
            /\ FailsWith(Get(response), 400)
            /\ ErrorIs(Get(response), "Invalid action")
            /\ ~Has(upstream)

\* C28: as above, the 400 'Invalid action' answer being that of every request
\* with an unknown or missing action other than the CORS preflight, which is
\* answered 200 with an empty body before any action is read.
C28_UpstreamOnlyForConsumptionPastPreflight ==
    /\ UpstreamOnlyForConsumption
    /\ RejectedConsumption => ~Has(upstream)
    /\ (Has(response) /\ ActionOf(Get(request)) \notin KnownActions) =>
            /\ ~Has(upstream)
            /\ IF Get(request).method = "OPTIONS"
               THEN Get(response) = [status |-> 200, body |-> Absent]
               ELSE FailsWith(Get(response), 400) /\ ErrorIs(Get(response), "Invalid action")

\* a request with an action the relay does not know has been answered 400
\* 'Invalid action' and nothing was sent upstream
C28_Witness ==
    /\ Has(response)
    /\ Get(request).method = "POST"
    /\ ActionOf(Get(request)) = "export"
    /\ ~KeyMissingOrEmpty(Get(request))
    /\ ~MeterMissingOrEmpty(Get(request))
    /\ ErrorIs(Get(response), "Invalid action")
    /\ ~Has(upstream)

----------------------------------------------------------------------------
(* The metering widget on a served page whose requests the relay answers *)

\* the forms saved on the served page: without a meter identifier, with the
\* password "0", and complete
ServedForms ==
    {Credentials(<<"a">>, <<"p", "w">>, <<>>),
     Credentials(<<"a">>, <<"0">>, <<" ">>),
     Credentials(<<"a">>, <<"p", "w">>, <<"A", "T", "1">>)}

\* the record saveSmartMeterConfig stores for a form
RecordOf(fields) ==
    Credentials(trim(fields.username), Get(btoa(fields.password)), trim(fields.meterId))

\* the POST of fetchSmartMeterAPI as the relay receives it
RelayRequestOf(fetch) ==
    Request("POST",
            Fields(Some(fetch.action), Absent, Some(Join(fetch.password)),
                   Some(Join(fetch.meterId)), Some(fetch.period)),
            NoFields)

\* the responses getConsumption can give to req
RelayAnswers(req) ==
    LET rejected == RejectRequest(ConsumptionKeyOf(req), MeterIdOf(req))
    IN  IF Has(rejected) THEN {Get(rejected)}
        ELSE {RelayReply(reply) : reply \in UpstreamReplies}

\* variant: the status of the response is not looked at
FetchedReply_IgnoresStatus(res) ==
    IF ~Has(res.body)
    THEN MeterReply("syntax", res.status, FALSE, Absent, Absent)
    ELSE IF Get(res.body).success
    THEN MeterReply("json", res.status, TRUE,
                    Some(MeterData(Get(res.body).data.weeklyConsumption)), Absent)
    ELSE MeterReply("json", res.status, FALSE, Absent,
                    Some(ErrorText(Get(res.body).error, "API Fehler")))

\* what the then callbacks of fetchSmartMeterAPI make of a response of the
\* relay: response.ok, response.json(), data.success
FetchedReply(res) ==
    IF res.status < 200 \/ res.status > 299
    THEN MeterReply("status", res.status, FALSE, Absent, Absent)
    ELSE IF ~Has(res.body)
    THEN MeterReply("syntax", res.status, FALSE, Absent, Absent)
    ELSE IF Get(res.body).success
    THEN MeterReply("json", res.status, TRUE,
                    Some(MeterData(Get(res.body).data.weeklyConsumption)), Absent)
    ELSE MeterReply("json", res.status, FALSE, Absent,
                    Some(ErrorText(Get(res.body).error, "API Fehler")))

\* the relay answers request i of the widget and the callbacks run
ServedMeterResponse ==
    \E i \in 1..Len(meterFetches) :
        \E res \in RelayAnswers(RelayRequestOf(meterFetches[i])) :
            MeterResponse(i, FetchedReply(res))

InitServed ==
    /\ PollInit
    /\ RenderIdle
    /\ RelayIdle
    /\ location = ServedLocation
    /\ localStorage \in {Absent} \cup {Some(JSON_stringify(RecordOf(f))) : f \in ServedForms}
    /\ MeterIdle
    /\ WeatherIdle
    /\ feedTimers = NoFeedTimers

NextServed ==
    \/ init
    \/ MeterTick
    \/ openConfigModal
    \/ \E fields \in ServedForms : EditForm(fields)
    \/ saveSmartMeterConfig
    \/ ServedMeterResponse
    \/ HintTimeout

SpecServed == InitServed /\ [][NextServed]_vars

----------------------------------------------------------------------------
(* Claims about a record without a meter identifier *)

\* a response of the relay has just been handled, and every request that was
\* in flight was the request fetch
AnsweredOneOf(fetch) ==
    /\ Len(meterFetches') < Len(meterFetches)
    /\ \A j \in 1..Len(meterFetches) : meterFetches[j] = fetch

\* the form saveSmartMeterConfig accepts, with no meter identifier in it
SavesWithoutMeter ==
    /\ modalActive
    /\ lastEvent' = "save"
    /\ trim(form.username) # <<>>
    /\ form.password # <<>>
    /\ Has(btoa(form.password))
    /\ trim(form.meterId) = <<>>

\* 'save' stores the record without a meter identifier and closes the modal
SaveAcceptsNoMeter ==
    SavesWithoutMeter =>
        /\ localStorage' = Some(JSON_stringify(RecordOf(form)))
        /\ RecordOf(form).meterId = <<>>
        /\ ~modalActive'

\* the widget shows the error state with the message text
ShowsError(view, text) ==
    /\ view.value = FixedValue("Fehler")
    /\ ~Has(view.value.amount)
    /\ view.period = text

\* C29 as stated: 'save' accepts a record without a meter identifier, and on
\* a served page every poll with that record ends in the error state with an
\* HTTP 400 message, never in a consumption value.
C29_NoMeterEndsInHttp400 ==
    [][/\ SaveAcceptsNoMeter
       /\ \A fetch \in {MeterRequest(RecordOf(f)) : f \in ServedForms} :
            (AnsweredOneOf(fetch) /\ fetch.meterId = <<>>) =>
                ShowsError(smartmeter', "HTTP 400")]_vars

\* C29: 'save' accepts a record without a meter identifier, and on a served
\* page every poll with that record ends in the error state, never in a
\* consumption value: with an HTTP 400 message, or with an HTTP 401 message
\* when the password is "0", which the relay takes for a missing key.
C29_NoMeterEndsInError ==
    [][/\ SaveAcceptsNoMeter
       /\ \A fetch \in {MeterRequest(RecordOf(f)) : f \in ServedForms} :
            (AnsweredOneOf(fetch) /\ fetch.meterId = <<>>) =>
                ShowsError(smartmeter',
                           IF fetch.password = <<"0">> THEN "HTTP 401" ELSE "HTTP 400")]_vars

\* a record without a meter identifier was saved and its poll has ended in
\* the error state with the HTTP 400 message
C29_Witness ==
    /\ lastEvent = "response"
    /\ meterFetches = <<>>
    /\ localStorage = Some(JSON_stringify(Credentials(<<"a">>, Get(btoa(<<"p", "w">>)), <<>>)))
    /\ ShowsError(smartmeter, "HTTP 400")

----------------------------------------------------------------------------
(* Claims about a stored record that is no JSON *)

\* a poll of init or of the interval timer, which touch no storage
TimedMeterPoll == MeterPollStarts /\ lastEvent' \in {"init", "tick"}

\* the click that opens the config modal
OpensModal == ~modalActive /\ modalActive' /\ lastEvent' = "open"

\* C30: a stored record that is no JSON is treated like an absent one: the
\* poll shows 'not configured' and sends nothing, as it would with empty
\* storage, opening the modal fills no field, and both leave the record in
\* storage.
C30_UnparseableIsAbsent ==
    [][localStorage = Some(NoJson) =>
        /\ getSmartMeterCredentials(localStorage) = getSmartMeterCredentials(Absent)
        /\ TimedMeterPoll =>
            /\ smartmeter' = NotConfigured
            /\ meterFetches' = meterFetches
            /\ demoTimers' = demoTimers
            /\ hintTimers' = hintTimers
            /\ loadSmartMeterData(MeterState, localStorage, location)
                 = loadSmartMeterData(MeterState, Absent, location)
            /\ localStorage' = Some(NoJson)
        /\ OpensModal =>
            /\ form' = form
            /\ localStorage' = Some(NoJson)]_vars

\* on a served page with a record that is no JSON, polls have run and the
\* modal has been opened: 'not configured', nothing sent, no field filled
C30_Witness ==
    /\ localStorage = Some(NoJson)
    /\ location = ServedLocation
    /\ meterPolls > 1
    /\ lastEvent = "open"
    /\ modalActive
    /\ form = EmptyForm
    /\ smartmeter = NotConfigured
    /\ meterFetches = <<>>
    /\ demoTimers = 0

----------------------------------------------------------------------------
(* The secret from the form to the relay *)

\* the secrets typed into the form: one to four characters (every padding of
\* base64, and two blocks), blanks, "0", a text that reads as base64, texts
\* outside Latin1, and none
Secrets ==
    {<<>>, <<"p">>, <<"ü">>, <<"0">>, <<"p", "ü">>, <<" ", "p", " ">>,
     <<"p", "w", "ü", "1">>, <<"c", "A", "=", "=">>, <<"€">>, <<"p", "€">>}
SecretForms == {Credentials(<<"a">>, text, <<"A", "T", "1">>) : text \in Secrets}

InitSecret ==
    /\ PollInit
    /\ RenderIdle
    /\ RelayIdle
    /\ location \in {ServedLocation, Location("file:", <<>>)}
    /\ localStorage = Absent
    /\ MeterIdle
    /\ WeatherIdle
    /\ feedTimers = NoFeedTimers

NextSecret ==
    \/ init
    \/ MeterTick
    \/ openConfigModal
    \/ \E fields \in SecretForms : EditForm(fields)
    \/ saveSmartMeterConfig

SpecSecret == InitSecret /\ [][NextSecret]_vars

----------------------------------------------------------------------------
(* Claims about the round trip of the secret *)

\* the step is a 'save' that stored a record
SaveStores == modalActive /\ ~modalActive' /\ lastEvent' = "save"

\* the request the poll of the step has sent, if it sent one
SentByPoll ==
    IF Len(meterFetches') = Len(meterFetches) + 1
    THEN Some(meterFetches'[Len(meterFetches')])
    ELSE Absent

\* C31: for every secret 'save' accepts, the decode of its stored encoding is
\* the secret, the password field of the request sent by the poll of the save
\* is the secret the user entered and is what the relay reads as the key, the
\* polls of the timer send the decode of the stored record, and the stored
\* text differs from the secret.
C31_SecretRoundTrip ==
    [][/\ SaveStores =>
            LET stored == Get(getSmartMeterCredentials(localStorage'))
            IN  /\ stored.password = Get(btoa(form.password))
                /\ atob(stored.password) = Some(form.password)
                /\ EncodedText(stored.password) # form.password
                /\ location = ServedLocation => Has(SentByPoll)
                /\ Has(SentByPoll) =>
                    /\ Get(SentByPoll).password = form.password
                    /\ ConsumptionKeyOf(RelayRequestOf(Get(SentByPoll)))
                         = Join(Get(SentByPoll).password)
       /\ (lastEvent' = "tick" /\ Has(SentByPoll)) =>
            /\ Some(Get(SentByPoll).password)
                 = atob(Get(getSmartMeterCredentials(localStorage)).password)
            /\ Get(getSmartMeterCredentials(localStorage)).password
                 = Get(btoa(Get(SentByPoll).password))]_vars

\* a four-character secret with a character above ASCII was saved on the
\* served page and the request of the poll carries it
C31_Witness ==
    /\ lastEvent = "save"
    /\ location = ServedLocation
    /\ Has(getSmartMeterCredentials(localStorage))
    /\ Get(getSmartMeterCredentials(localStorage)).password
         = Get(btoa(<<"p", "w", "ü", "1">>))
    /\ meterFetches # <<>>
    /\ meterFetches[Len(meterFetches)].password = <<"p", "w", "ü", "1">>

====
